---- MODULE Spec2Model ----
(***************************************************************************)
(* Publication control plane of the janitor (janitor/publish.py): the      *)
(* per-maintainer rate limiter, the driver loop (publish_pending_new), the *)
(* proposal reconciler (check_existing) and the on-demand HTTP handler     *)
(* (publish_request), interleaved at the points where the coroutines       *)
(* really suspend.                                                         *)
(***************************************************************************)
EXTENDS Integers, Sequences, FiniteSets, TLC

\* ------------------------------------------------------------------ bounds
\* Largest --max-mps-per-maintainer value explored (0 selects NonRateLimiter).
MaxCap == 2
\* Number of iterations of process_queue_loop explored.
MaxPasses == 2
\* Number of on-demand publish requests explored.
MaxRequests == 1
\* Largest count a test harness hands to set_open_mps_per_maintainer.
MaxCount == 2
\* Number of inc calls the limiter harness makes.
MaxIncCalls == 3

\* --------------------------------------------------------- program constants
MODE_SKIP == "skip"
MODE_BUILD_ONLY == "build-only"
MODE_PUSH == "push"
MODE_PUSH_DERIVED == "push-derived"
MODE_PROPOSE == "propose"
MODE_ATTEMPT_PUSH == "attempt-push"
SUPPORTED_MODES ==
    {MODE_PUSH, MODE_SKIP, MODE_BUILD_ONLY, MODE_PUSH_DERIVED, MODE_PROPOSE,
     MODE_ATTEMPT_PUSH}

\* Python's None, for values that are otherwise strings.
None == "None"

\* ------------------------------------------------------------- Python dicts
\* A dict is a function whose domain is the set of keys present.
EmptyDict == [k \in {} |-> 0]

DictGet(d, k, default) == IF k \in DOMAIN d THEN d[k] ELSE default

\* d.setdefault(k, 0); d[k] += 1
DictSetDefaultInc(d, k) ==
    [x \in (DOMAIN d) \cup {k} |-> IF x = k THEN DictGet(d, k, 0) + 1 ELSE d[x]]

\* for k, v in src.items(): d[k] = v
DictUpdate(d, src) ==
    [x \in (DOMAIN d) \cup (DOMAIN src) |-> IF x \in DOMAIN src THEN src[x] ELSE d[x]]

RECURSIVE SumOver(_, _)
SumOver(d, keys) ==
    IF keys = {} THEN 0
    ELSE LET k == CHOOSE x \in keys : TRUE
         IN d[k] + SumOver(d, keys \ {k})

DictSum(d) == SumOver(d, DOMAIN d)

\* An attribute that is either None (the empty sequence) or one value.
NoValue == <<>>
Some(v) == <<v>>


\* ------------------------------------------------------------ store contents
\* Package table of the store: maintainer contact and main branch URL (a URL
\* is the sequence of its "/"-separated parts).
Packages == {"pkg-a", "pkg-b"}

Maintainers == {"m1@example.org", "m2@example.org"}

package_table ==
    [p \in Packages |->
        IF p = "pkg-a"
        THEN [name |-> p, maintainer_email |-> "m1@example.org",
              branch_url |-> <<"https:", "", "salsa.debian.org", "debian", "pkg-a">>]
        ELSE [name |-> p, maintainer_email |-> "m1@example.org",
              branch_url |-> <<"https:", "", "github.com", "example", "pkg-b">>]]

\* The runs of the store, oldest first.  Each package has a latest successful
\* lintian-brush run; pkg-a also has an older one.
run_table ==
    << [id |-> "run-1", package |-> "pkg-a", suite |-> "lintian-fixes",
        command |-> "lintian-brush", result_code |-> "success",
        main_branch_revision |-> "A", revision |-> "B1",
        branch_name |-> "lintian-fixes",
        result |-> [applied |-> 1, add_on_only |-> FALSE]],
       [id |-> "run-2", package |-> "pkg-a", suite |-> "lintian-fixes",
        command |-> "lintian-brush", result_code |-> "success",
        main_branch_revision |-> "A", revision |-> "B2",
        branch_name |-> "lintian-fixes",
        result |-> [applied |-> 1, add_on_only |-> FALSE]],
       [id |-> "run-3", package |-> "pkg-b", suite |-> "lintian-fixes",
        command |-> "lintian-brush", result_code |-> "success",
        main_branch_revision |-> "C", revision |-> "D1",
        branch_name |-> "lintian-fixes",
        result |-> [applied |-> 1, add_on_only |-> FALSE]] >>

\* "salsa.debian.org/debian/" in main_branch_url
SALSA_DEBIAN == <<"salsa.debian.org", "debian">>

ContainsSalsaDebian(url) ==
    \E i \in 1..Len(url) :
        /\ i + 2 <= Len(url)
        /\ url[i] = SALSA_DEBIAN[1]
        /\ url[i + 1] = SALSA_DEBIAN[2]

\* ------------------------------------------------------------------- state
VARIABLES
    policy,                  \* policy file: package -> mode
    max_mps_per_maintainer,  \* --max-mps-per-maintainer
    push_permitted,          \* environment: the hoster accepts direct pushes
    branch_fault,            \* environment: package -> what opening its main branch and
                             \* hoster runs into, or "none"
    runs,                    \* store: run table, oldest first
    publish,                 \* store: Publication rows, append-only
    merge_proposal,          \* store: proposal url -> [package, status, revision]
    queue,                   \* store: refresh requests (add_to_queue)
    proposals,               \* hoster: proposals, url = position
    open_mps_per_maintainer, \* limiter: NoValue (None) or Some(dict)
    open_proposal_count,     \* gauge open_proposal_count{maintainer}
    merge_proposal_count,    \* gauge merge_proposal_count{status}
    proposal_rate_limited_count, \* counter proposal_rate_limited{package}
    driver,                  \* process_queue_loop task: position and locals
    handlers,                \* publish_request handlers in flight
    n_requests,              \* publish requests received so far
    alive,                   \* the process has not died of an exception
    set_called,              \* history: set_open_mps_per_maintainer was called
    inc_calls,               \* history: calls of rate_limiter.inc per maintainer
    publish_one_calls,       \* history: calls of publish_one
    pass_end,                \* history: the state the last publish_pending left
    \* the worker process (worker.py) for one run
    main_pc,                 \* where the coroutine main() is
    main_ending,             \* how main() ends once its finally block is done
    main_task,               \* the future of run_worker in the executor
    thread_pc,               \* the step run_worker's thread is executing
    thread_result,           \* what run_worker returned or raised
    kill,                    \* watchdog_petter.kill is set
    received,                \* the frames the progress channel has received
    metadata,                \* the result dictionary shared by all tasks
    posts,                   \* the POSTs to active-runs/{id}/finish
    shutdown_pc,             \* where the task made by handle_sigterm is
    exit_status,             \* the exit status, once the process is ending
    kill_at,                 \* history: the step main_task.cancel() interrupted
    \* a VCS store on disk (vcs.py)
    vcs_store,               \* the branches on disk: vcs, package, name and tip
    imports,                 \* history: the import_branches calls and how they ended
    last_pushed,             \* history: the tip last pushed per package and name
    opened,                  \* what the last get_branch returned or raised
    result_branch,           \* how publish_one's opening of the result branch ended
    vcs_type_found,          \* what the last get_vcs_type returned or raised
    \* one description on its way through the blurb functions
    blurb_text,              \* the text, package, log id and suite given
    blurb_added,             \* what add_janitor_blurb returned
    blurb_stripped,          \* what strip_janitor_blurb returned for that
    \* one call of process_package (worker.py)
    force_build,             \* the argument force_build
    resume_subworker_result, \* the resume metadata: None or supplied
    resume_branch,           \* ws.resume_branch: None or a branch
    recipe,                  \* what make_changes is going to return or raise
    process_pc,              \* where process_package is
    process_steps,           \* history: the steps taken (recipe, build, mirror)
    process_code,            \* the code of the WorkerFailure raised, if any
    \* the WatchdogPetter of one run (worker.py)
    now,                     \* datetime.utcnow(), in units of ten seconds
    last_communication,      \* self._last_communication
    ws,                      \* self.ws: None, an open socket or a dead one
    log_cached,              \* self._log_cached
    connection_pc,           \* where the task _connection is
    flushed,                 \* how many entries of _log_cached the flush has sent
    keepalive_pc,            \* whether the task _send_keepalives still runs
    forward_pc,              \* whether the task _forward_logs still runs
    produced,                \* history: fragments handed to send_log_fragment
    drops,                   \* history: how often the server dropped the socket
    frames                   \* history: the frames the server received, and when

config_vars == <<policy, max_mps_per_maintainer, push_permitted, branch_fault, runs>>
store_vars == <<publish, merge_proposal, queue>>
limiter_vars == <<open_mps_per_maintainer, set_called, inc_calls>>
metric_vars == <<open_proposal_count, merge_proposal_count, proposal_rate_limited_count>>
task_vars == <<driver, handlers, n_requests, alive>>
history_vars == <<publish_one_calls, pass_end>>
worker_vars == <<main_pc, main_ending, main_task, thread_pc, thread_result, kill, received, metadata, posts, shutdown_pc, exit_status, kill_at>>
vcs_vars == <<vcs_store, imports, last_pushed, opened, result_branch, vcs_type_found>>
blurb_vars == <<blurb_text, blurb_added, blurb_stripped>>
process_vars == <<force_build, resume_subworker_result, resume_branch, recipe, process_pc, process_steps, process_code>>
watchdog_vars == <<now, last_communication, ws, log_cached, connection_pc, flushed, keepalive_pc, forward_pc, produced, drops, frames>>
vars == <<config_vars, store_vars, proposals, limiter_vars, metric_vars, task_vars,
          history_vars, worker_vars, vcs_vars, blurb_vars, process_vars, watchdog_vars>>

\* No package has been mirrored into the VCS store
VcsStoreEmpty ==
    /\ vcs_store = {}
    /\ imports = <<>>
    /\ last_pushed = {}
    /\ opened = NoValue
    /\ result_branch = NoValue
    /\ vcs_type_found = NoValue

\* No description is on its way through the blurb functions
BlurbIdle ==
    /\ blurb_text = NoValue
    /\ blurb_added = NoValue
    /\ blurb_stripped = NoValue

\* process_package has not been called
ProcessIdle ==
    /\ force_build = FALSE
    /\ resume_subworker_result = None
    /\ resume_branch = None
    /\ recipe = NoValue
    /\ process_pc = "idle"
    /\ process_steps = <<>>
    /\ process_code = NoValue

\* No WatchdogPetter has been constructed
WatchdogIdle ==
    /\ now = 0
    /\ last_communication = 0
    /\ ws = None
    /\ log_cached = <<>>
    /\ connection_pc = "idle"
    /\ flushed = 0
    /\ keepalive_pc = "idle"
    /\ forward_pc = "idle"
    /\ produced = 0
    /\ drops = 0
    /\ frames = <<>>

\* The worker before main() has asked for an assignment
WorkerNotStarted ==
    /\ main_pc = "get_assignment"
    /\ main_ending = NoValue
    /\ main_task = "none"
    /\ thread_pc = "idle"
    /\ thread_result = NoValue
    /\ kill = FALSE
    /\ received = <<>>
    /\ metadata = [code |-> "unset", description |-> "unset", finish_time |-> FALSE]
    /\ posts = <<>>
    /\ shutdown_pc = "none"
    /\ exit_status = NoValue
    /\ kill_at = NoValue

\* ------------------------------------------------------------ rate limiter
\* main(): MaintainerRateLimiter when the cap is positive, else NonRateLimiter.
rate_limiter_class ==
    IF max_mps_per_maintainer > 0 THEN "MaintainerRateLimiter" ELSE "NonRateLimiter"

\* MaintainerRateLimiter.allowed
MaintainerRateLimiter_allowed(maintainer_email) ==
    IF max_mps_per_maintainer = 0 THEN TRUE
    ELSE IF open_mps_per_maintainer = NoValue THEN FALSE
    ELSE DictGet(open_mps_per_maintainer[1], maintainer_email, 0)
            < max_mps_per_maintainer

\* rate_limiter.allowed, for the limiter main() constructed
allowed(maintainer_email) ==
    IF rate_limiter_class = "NonRateLimiter" THEN TRUE
    ELSE MaintainerRateLimiter_allowed(maintainer_email)

\* A variant of MaintainerRateLimiter.inc that starts a map when there is none
MaintainerRateLimiter_inc_lazy(open_mps, gauge, maintainer_email) ==
    [open_mps |-> Some(DictSetDefaultInc(IF open_mps = NoValue THEN EmptyDict
                                         ELSE open_mps[1], maintainer_email)),
     open_gauge |-> DictSetDefaultInc(gauge, maintainer_email)]

\* MaintainerRateLimiter.inc, applied to a map and to the gauge
MaintainerRateLimiter_inc(open_mps, gauge, maintainer_email) ==
    IF open_mps = NoValue
    THEN [open_mps |-> open_mps, open_gauge |-> gauge]
    ELSE [open_mps |-> Some(DictSetDefaultInc(open_mps[1], maintainer_email)),
          open_gauge |-> DictSetDefaultInc(gauge, maintainer_email)]

\* rate_limiter.inc, for the limiter main() constructed
rate_limiter_inc(open_mps, gauge, maintainer_email) ==
    IF rate_limiter_class = "NonRateLimiter"
    THEN [open_mps |-> open_mps, open_gauge |-> gauge]
    ELSE MaintainerRateLimiter_inc(open_mps, gauge, maintainer_email)

\* MaintainerRateLimiter.set_open_mps_per_maintainer, applied to the gauge
MaintainerRateLimiter_set(gauge, new_open_mps) ==
    [open_mps |-> Some(new_open_mps), open_gauge |-> DictUpdate(gauge, new_open_mps)]

\* ---------------------------------------------------------- descriptions
\* A description is a sequence of pieces: words, line breaks and the bodies
\* of the blurbs.  Each blurb begins and ends with a line break.
Suites == {"lintian-fixes", "fresh-releases"}

\* The text of JANITOR_BLURB between its first and last line break
JANITOR_BLURB_BODY(suite) ==
    IF suite = "lintian-fixes"
    THEN "This merge proposal ... (https://janitor.debian.net/lintian-fixes). ..."
    ELSE "This merge proposal ... (https://janitor.debian.net/fresh-releases). ..."

\* JANITOR_BLURB % {'suite': suite}
JANITOR_BLURB(suite) == <<"\n", JANITOR_BLURB_BODY(suite), "\n">>

OLD_JANITOR_BLURB ==
    <<"\n", "This merge proposal ... (https://janitor.debian.net/). ...", "\n">>

\* LOG_BLURB % {'package': pkg, 'log_id': log_id}
LOG_BLURB(pkg, log_id) == <<"\n", "Build and test logs ... can be found at ...", "\n">>

\* What a subrunner's get_proposal_description returns
NEW_DESCRIPTION == <<"Fix some issues reported by lintian">>

\* sub occurs in text at position i
OccursAt(text, sub, i) ==
    /\ i + Len(sub) - 1 <= Len(text)
    /\ SubSeq(text, i, i + Len(sub) - 1) = sub

\* text.index(sub): the first position of sub in text, 0 for ValueError
Index(text, sub) ==
    IF \E i \in 1..Len(text) : OccursAt(text, sub, i)
    THEN CHOOSE i \in 1..Len(text) :
            OccursAt(text, sub, i) /\ \A j \in 1..(i - 1) : ~OccursAt(text, sub, j)
    ELSE 0

\* str.strip(): the text without the line breaks at its ends
RECURSIVE Strip(_)
Strip(text) ==
    IF text = <<>> THEN text
    ELSE IF Head(text) = "\n" THEN Strip(Tail(text))
    ELSE IF text[Len(text)] = "\n" THEN Strip(SubSeq(text, 1, Len(text) - 1))
    ELSE text

\* A variant of strip_janitor_blurb that returns text[:i] as it is
strip_janitor_blurb_unstripped(text, suite) ==
    IF Index(text, JANITOR_BLURB(suite)) # 0
    THEN Some(SubSeq(text, 1, Index(text, JANITOR_BLURB(suite)) - 1))
    ELSE IF Index(text, OLD_JANITOR_BLURB) # 0
    THEN Some(SubSeq(text, 1, Index(text, OLD_JANITOR_BLURB) - 1))
    ELSE NoValue

\* strip_janitor_blurb: the text before the blurb; NoValue when neither blurb
\* is in the text (text.index raises ValueError)
strip_janitor_blurb(text, suite) ==
    IF Index(text, JANITOR_BLURB(suite)) # 0
    THEN Some(Strip(SubSeq(text, 1, Index(text, JANITOR_BLURB(suite)) - 1)))
    ELSE IF Index(text, OLD_JANITOR_BLURB) # 0
    THEN Some(Strip(SubSeq(text, 1, Index(text, OLD_JANITOR_BLURB) - 1)))
    ELSE NoValue

\* add_janitor_blurb
add_janitor_blurb(text, pkg, log_id, suite) ==
    text \o <<"\n">> \o JANITOR_BLURB(suite) \o LOG_BLURB(pkg, log_id)

\* The description of a proposal the janitor made for lintian-fixes earlier
EARLIER_DESCRIPTION ==
    add_janitor_blurb(NEW_DESCRIPTION, "pkg", "run-0", "lintian-fixes")

\* ------------------------------------------------------------------ hoster
\* A proposal's url is its position in proposals.  created_by and
\* limiter_count record who created it and what the limiter's count for the
\* maintainer was at that moment.
OpenProposals(props, pkg, branch_name) ==
    {i \in 1..Len(props) :
        /\ props[i].package = pkg
        /\ props[i].branch_name = branch_name
        /\ props[i].status = "open"}

\* find_existing_proposed: the open proposal from the bot's branch, if any
find_existing_proposed(props, pkg, branch_name) ==
    IF OpenProposals(props, pkg, branch_name) = {} THEN NoValue
    ELSE Some(CHOOSE i \in OpenProposals(props, pkg, branch_name) : TRUE)

\* LintianBrushPublisher / NewUpstreamPublisher .branch_name()
subrunner_branch_name(command) ==
    IF command = "lintian-brush" THEN "lintian-fixes" ELSE "new-upstream"

\* publish_one knows a subrunner for the command
known_command(command) == command \in {"lintian-brush", "new-upstream"}

\* Exceptions other than PublishFailure, which no caller of publish_one catches
UNCAUGHT == {"AssertionError", "ValueError", "UnboundLocalError"}

\* LintianBrushPublisher.allow_create_proposal()
subrunner_allow_create_proposal(result) ==
    result.applied > 0 /\ ~result.add_on_only

\* publish_changes_from_workspace of silver_platter: what the publication
\* primitive of a mode does to the hoster for a package.  Result: the hoster's proposals, the
\* proposal returned (NoValue for None), is_new, and the failure code if any.
publish_changes_from_workspace(props, suite, pkg, log_id, branch_name, revision, mode, existing_proposal, allow_create_proposal, creator, limiter_count) ==
    IF mode \in {MODE_SKIP, MODE_BUILD_ONLY, MODE_PUSH_DERIVED}
       \/ (mode \in {MODE_PUSH, MODE_ATTEMPT_PUSH} /\ push_permitted)
    THEN [code |-> "success", proposals |-> props, proposal |-> NoValue,
          is_new |-> FALSE]
    ELSE IF mode = MODE_PUSH
    THEN [code |-> "permission-denied", proposals |-> props,
          proposal |-> NoValue, is_new |-> FALSE]
    ELSE IF existing_proposal # NoValue
            /\ strip_janitor_blurb(props[existing_proposal[1]].description, suite) = NoValue
    THEN [code |-> "ValueError", proposals |-> props, proposal |-> NoValue,
          is_new |-> FALSE]
    ELSE IF existing_proposal # NoValue
    THEN [code |-> "success",
          proposals |-> [props EXCEPT ![existing_proposal[1]].revision = revision,
                                      ![existing_proposal[1]].description =
                                          add_janitor_blurb(NEW_DESCRIPTION, pkg,
                                                            log_id, suite)],
          proposal |-> existing_proposal, is_new |-> FALSE]
    ELSE IF allow_create_proposal
    THEN [code |-> "success",
          proposals |->
              Append(props,
                     [package |-> pkg, branch_name |-> branch_name,
                      status |-> "open", revision |-> revision,
                      can_be_merged |-> Some(TRUE), created_by |-> creator,
                      limiter_count |-> limiter_count,
                      description |-> add_janitor_blurb(NEW_DESCRIPTION, pkg,
                                                        log_id, suite)]),
          proposal |-> Some(Len(props) + 1), is_new |-> TRUE]
    ELSE [code |-> "success", proposals |-> props, proposal |-> NoValue,
          is_new |-> FALSE]

\* publish(): publish_changes, then the two gauges when a proposal is new
publish_fn(props, mp_gauge, open_gauge, suite, pkg, log_id, maintainer_email, branch_name, revision, mode, existing_proposal, allow_create_proposal, creator, limiter_count) ==
    LET r == publish_changes_from_workspace(props, suite, pkg, log_id, branch_name,
                             revision, mode,
                             existing_proposal, allow_create_proposal, creator,
                             limiter_count)
    IN  IF r.code = "success" /\ r.proposal # NoValue /\ r.is_new
        THEN r @@ [mp_gauge |-> DictSetDefaultInc(mp_gauge, "open"),
                   open_gauge |-> DictSetDefaultInc(open_gauge, maintainer_email)]
        ELSE r @@ [mp_gauge |-> mp_gauge, open_gauge |-> open_gauge]

\* A variant of open_branches in which the hoster is bound to None when no
\* hoster supports the main branch
open_branches_hoster_none(pkg, mode) ==
    IF branch_fault[pkg] = "unsupported-hoster"
    THEN IF mode \notin {MODE_PUSH, MODE_BUILD_ONLY} THEN "hoster-unsupported"
         ELSE "none"
    ELSE branch_fault[pkg]

\* publish_one from open_branch(main_branch_url) to the call of publish():
\* "none", or the code of what is raised.  open_branch may raise
\* BranchUnavailable.  When get_hoster raises UnsupportedHoster the modes
\* other than push and build-only fail with hoster-unsupported; for push and
\* build-only the handler binds resume_branch and existing_proposal but not
\* hoster, which the call of publish() then reads.
open_branches(pkg, mode) ==
    IF branch_fault[pkg] = "unsupported-hoster"
    THEN IF mode \notin {MODE_PUSH, MODE_BUILD_ONLY} THEN "hoster-unsupported"
         ELSE "UnboundLocalError"
    ELSE branch_fault[pkg]

\* A variant of publish_one that never asks the subrunner and always allows a
\* new proposal
publish_one_always_allows(props, mp_gauge, open_gauge, run, mode, maintainer_email, allow_create_proposal_arg, creator, limiter_count) ==
    LET branch_name == subrunner_branch_name(run.command)
        existing_proposal == find_existing_proposed(props, run.package, branch_name)
    IN  IF ~known_command(run.command)
        THEN [code |-> "AssertionError", proposals |-> props, proposal |-> NoValue,
              is_new |-> FALSE, mp_gauge |-> mp_gauge, open_gauge |-> open_gauge,
              branch_name |-> branch_name]
        ELSE IF open_branches(run.package, mode) # "none"
        THEN [code |-> open_branches(run.package, mode), proposals |-> props, proposal |-> NoValue,
              is_new |-> FALSE, mp_gauge |-> mp_gauge, open_gauge |-> open_gauge,
              branch_name |-> branch_name]
        ELSE publish_fn(props, mp_gauge, open_gauge, run.suite, run.package,
                        run.id, maintainer_email,
                        branch_name, run.revision, mode, existing_proposal,
                        TRUE, creator, limiter_count)
             @@ [branch_name |-> branch_name]

\* publish_one(): open the branches, pick the subrunner, look for an existing
\* proposal, publish.  The result carries the subrunner's branch name.
publish_one(props, mp_gauge, open_gauge, run, mode, maintainer_email, allow_create_proposal_arg, creator, limiter_count) ==
    LET branch_name == subrunner_branch_name(run.command)
        existing_proposal == find_existing_proposed(props, run.package, branch_name)
        allow_create_proposal ==
            IF allow_create_proposal_arg = None
            THEN subrunner_allow_create_proposal(run.result)
            ELSE allow_create_proposal_arg = "True"
    IN  IF ~known_command(run.command)
        THEN [code |-> "AssertionError", proposals |-> props, proposal |-> NoValue,
              is_new |-> FALSE, mp_gauge |-> mp_gauge, open_gauge |-> open_gauge,
              branch_name |-> branch_name]
        ELSE IF open_branches(run.package, mode) # "none"
        THEN [code |-> open_branches(run.package, mode), proposals |-> props, proposal |-> NoValue,
              is_new |-> FALSE, mp_gauge |-> mp_gauge, open_gauge |-> open_gauge,
              branch_name |-> branch_name]
        ELSE publish_fn(props, mp_gauge, open_gauge, run.suite, run.package,
                        run.id, maintainer_email,
                        branch_name, run.revision, mode, existing_proposal,
                        allow_create_proposal, creator, limiter_count)
             @@ [branch_name |-> branch_name]

\* ------------------------------------------------------------------- store
\* policy.apply_policy: the mode the policy file gives a package
apply_policy(pkg) == policy[pkg]

\* state.iter_previous_runs: the runs of (package, suite), newest first
RECURSIVE Reverse(_)
Reverse(seq) == IF seq = <<>> THEN <<>> ELSE Append(Reverse(Tail(seq)), Head(seq))

IsRunOf(r, pkg, suite) == r.package = pkg /\ r.suite = suite

RECURSIVE FilterRuns(_, _, _)
FilterRuns(seq, pkg, suite) ==
    IF seq = <<>> THEN <<>>
    ELSE IF IsRunOf(Head(seq), pkg, suite)
         THEN <<Head(seq)>> \o FilterRuns(Tail(seq), pkg, suite)
         ELSE FilterRuns(Tail(seq), pkg, suite)

iter_previous_runs(pkg, suite) == Reverse(FilterRuns(runs, pkg, suite))

\* state.get_last_unmerged_success: the newest successful run of (package, suite)
get_last_unmerged_success(pkg, suite) ==
    LET ok == SelectSeq(iter_previous_runs(pkg, suite),
                        LAMBDA r : r.result_code = "success")
    IN  IF ok = <<>> THEN NoValue ELSE Some(Head(ok))

\* state.iter_publish_ready: the newest successful run of every package, joined
\* with the package's maintainer and main branch URL
\* (as positions in the run table)
iter_publish_ready ==
    SelectSeq([i \in 1..Len(runs) |-> i],
              LAMBDA i : get_last_unmerged_success(runs[i].package, runs[i].suite)
                             = Some(runs[i]))

\* state.already_published: a Publication with a non-error code exists for
\* (package, branch name, revision, mode)
already_published(pkg, branch_name, revision, mode) ==
    \E i \in 1..Len(publish) :
        /\ publish[i].package = pkg
        /\ publish[i].branch_name = branch_name
        /\ publish[i].revision = revision
        /\ publish[i].mode = mode
        /\ publish[i].code = "success"

\* state.store_publish: append the Publication; a proposal url also records the
\* proposal with its package and the revision published
store_publish_rows(rows, row) == Append(rows, row)

store_publish_mps(mps, row) ==
    IF row.proposal_url = NoValue THEN mps
    ELSE LET url == row.proposal_url[1]
         IN  [u \in (DOMAIN mps) \cup {url} |->
                 IF u = url
                 THEN [package |-> row.package, revision |-> row.revision,
                       status |-> IF url \in DOMAIN mps THEN mps[url].status
                                  ELSE "open"]
                 ELSE mps[u]]

\* state.set_proposal_status
set_proposal_status(mps, url, status) ==
    [u \in (DOMAIN mps) \cup {url} |->
        IF u = url
        THEN IF url \in DOMAIN mps THEN [mps[url] EXCEPT !.status = status]
             ELSE [package |-> None, revision |-> None, status |-> status]
        ELSE mps[u]]

\* state.get_maintainer_email_for_proposal
get_maintainer_email_for_proposal(mps, url) ==
    IF url \in DOMAIN mps /\ mps[url].package \in Packages
    THEN package_table[mps[url].package].maintainer_email
    ELSE None

\* mp.get_source_branch_url() and state.get_maintainer_email_for_branch_url:
\* the maintainer of the package whose branch the proposal was made from
get_maintainer_email_for_branch_url(props, url) ==
    IF props[url].package \in Packages
    THEN package_table[props[url].package].maintainer_email
    ELSE None

\* state.get_merge_proposal_run: the run whose revision the proposal carries
get_merge_proposal_run(mps, url) ==
    IF url \notin DOMAIN mps \/ mps[url].package = None THEN NoValue
    ELSE LET found == SelectSeq(runs, LAMBDA r : r.package = mps[url].package
                                              /\ r.revision = mps[url].revision)
         IN  IF found = <<>> THEN NoValue ELSE Some(Head(found))

\* ------------------------------------------------------------- reconciler
\* iter_all_mps: every proposal of the hoster, by status, as (url, status)
ProposalsWithStatus(props, status) ==
    SelectSeq([i \in 1..Len(props) |-> <<i, props[i].status>>],
              LAMBDA e : e[2] = status)

iter_all_mps(props) ==
    ProposalsWithStatus(props, "open") \o ProposalsWithStatus(props, "merged")
        \o ProposalsWithStatus(props, "closed")

\* A variant of RunsBefore that never meets mp_run
RunsBefore_all(seq, mp_run) == seq

\* The runs iter_previous_runs yields before it reaches mp_run
RECURSIVE RunsBefore(_, _)
RunsBefore(seq, mp_run) ==
    IF seq = <<>> \/ Head(seq) = mp_run THEN <<>>
    ELSE <<Head(seq)>> \o RunsBefore(Tail(seq), mp_run)

\* A variant of ScanRecentRuns that passes over a failed run as it passes over
\* one that found nothing to do
RECURSIVE ScanRecentRuns_past_failures(_)
ScanRecentRuns_past_failures(recent_runs) ==
    IF recent_runs = <<>> THEN [kind |-> "else"]
    ELSE LET run == Head(recent_runs)
         IN  IF run.result_code # "success" \/ run.suite = "unchanged"
             THEN ScanRecentRuns_past_failures(Tail(recent_runs))
             ELSE [kind |-> "publish", run |-> run]

\* The "for run in recent_runs" loop up to its first break: the run to
\* publish, a failed run that stops it, or the end of the list
RECURSIVE ScanRecentRuns(_)
ScanRecentRuns(recent_runs) ==
    IF recent_runs = <<>> THEN [kind |-> "else"]
    ELSE LET run == Head(recent_runs)
         IN  IF run.result_code \notin {"success", "nothing-to-do"}
             THEN [kind |-> "failed", run |-> run]
             ELSE IF run.result_code = "nothing-to-do" \/ run.suite = "unchanged"
             THEN ScanRecentRuns(Tail(recent_runs))
             ELSE [kind |-> "publish", run |-> run]

\* A variant of is_conflicted for which an unknown answer counts as a conflict
is_conflicted_or_unknown(mp) ==
    IF mp.can_be_merged = NoValue THEN Some(TRUE) ELSE Some(~mp.can_be_merged[1])

\* is_conflicted(mp): "not mp.can_be_merged()", or None when the hoster raises
\* NotImplementedError (can_be_merged is NoValue then)
is_conflicted(mp) ==
    IF mp.can_be_merged = NoValue THEN NoValue ELSE Some(~mp.can_be_merged[1])

\* Python's truth value of None, True or False
Truthy(v) == v # NoValue /\ v[1]

\* The local state of one check_existing pass together with what it shares
ReconcileState ==
    [mps |-> merge_proposal, props |-> proposals, rows |-> publish, q |-> queue,
     mp_gauge |-> merge_proposal_count, open_gauge |-> open_proposal_count,
     open_mps |-> driver.open_mps, status_count |-> driver.status_count,
     branch_name |-> driver.branch_name, calls |-> publish_one_calls,
     crashed |-> FALSE]

\* The update of one open proposal from the newest run that has changes
update_proposal(st, url, maintainer_email, run) ==
    LET o == publish_one(st.props, st.mp_gauge, st.open_gauge, run, MODE_PROPOSE,
                         maintainer_email, "True", "check_existing", 0)
        call == [by |-> "check_existing", package |-> run.package,
                 policy_mode |-> None, mode |-> MODE_PROPOSE,
                 allowed |-> allowed(maintainer_email)]
        st1 == [st EXCEPT !.calls = @ \cup {call}]
    IN  IF o.code \in UNCAUGHT
        THEN \* no except clause matches: the exception leaves check_existing
             [st1 EXCEPT !.crashed = TRUE]
        ELSE IF o.code # "success"
        THEN \* except PublishFailure: branch_name is the function's local
             IF st.branch_name = NoValue
             THEN [st1 EXCEPT !.crashed = TRUE]
             ELSE LET row == [package |-> run.package,
                              branch_name |-> st.branch_name[1],
                              main_branch_revision |-> run.main_branch_revision,
                              revision |-> run.revision, mode |-> MODE_PROPOSE,
                              code |-> o.code, proposal_url |-> Some(url),
                              by |-> "check_existing"]
                  IN  [st1 EXCEPT !.rows = store_publish_rows(@, row),
                                  !.mps = store_publish_mps(@, row)]
        ELSE LET row == [package |-> run.package, branch_name |-> o.branch_name,
                         main_branch_revision |-> run.main_branch_revision,
                         revision |-> run.revision, mode |-> MODE_PROPOSE,
                         code |-> "success", proposal_url |-> o.proposal,
                         by |-> "check_existing"]
             IN  [st1 EXCEPT !.props = o.proposals,
                             !.mp_gauge = o.mp_gauge,
                             !.open_gauge = o.open_gauge,
                             !.branch_name = Some(o.branch_name),
                             !.rows = store_publish_rows(@, row),
                             !.mps = store_publish_mps(@, row),
                             !.crashed = o.is_new]

\* A variant of count_open_mp that drops the "is not None" test
count_open_mp_unconditional(open_mps, maintainer_email) ==
    DictSetDefaultInc(open_mps, maintainer_email)

\* "if maintainer_email is not None:" and the two lines it guards
count_open_mp(open_mps, maintainer_email) ==
    IF maintainer_email # None
    THEN DictSetDefaultInc(open_mps, maintainer_email)
    ELSE open_mps

\* A variant of close_when_nothing_done with the branch enabled
close_when_nothing_done_enabled == TRUE

\* "if False:" in front of mp.close(), for a proposal whose newer runs all
\* found nothing to do
close_when_nothing_done == FALSE

\* The body of the "async for mp, status in iter_all_mps()" loop for one proposal
reconcile_one(st, url, status) ==
    LET mps1 == set_proposal_status(st.mps, url, status)
        st1 == [st EXCEPT !.mps = mps1, !.status_count[status] = @ + 1]
        by_proposal == get_maintainer_email_for_proposal(mps1, url)
        maintainer_email ==
            IF by_proposal # None THEN by_proposal
            ELSE get_maintainer_email_for_branch_url(st.props, url)
        st2 == [st1 EXCEPT !.open_mps = count_open_mp(@, maintainer_email)]
        mp_run == get_merge_proposal_run(mps1, url)
    IN  IF status # "open" THEN st1
        ELSE IF mp_run = NoValue THEN st2
        ELSE LET previous == iter_previous_runs(mp_run[1].package, mp_run[1].suite)
                 recent_runs == RunsBefore(previous, mp_run[1])
                 scan == ScanRecentRuns(recent_runs)
                 run == IF recent_runs = <<>> THEN mp_run[1]
                        ELSE recent_runs[Len(recent_runs)]
             IN  IF scan.kind = "failed" THEN st2
                 ELSE IF scan.kind = "publish"
                 THEN update_proposal(st2, url, maintainer_email, scan.run)
                 ELSE IF recent_runs # <<>> /\ close_when_nothing_done
                 THEN \* mp.close(); continue
                      [st2 EXCEPT !.props[url].status = "closed"]
                 ELSE IF Truthy(is_conflicted(st.props[url]))
                 THEN [st2 EXCEPT !.q = @ \cup
                          {[branch_url |-> package_table[run.package].branch_url,
                            package |-> run.package, command |-> run.command,
                            suite |-> run.suite, offset |-> -2, refresh |-> TRUE]}]
                 ELSE st2

\* The end of check_existing: the status gauge, then the limiter is seeded.
\* NonRateLimiter has no set_open_mps_per_maintainer: the call raises.
reconcile_finish(st) ==
    LET mp_gauge == DictUpdate(st.mp_gauge, st.status_count)
    IN  IF rate_limiter_class = "NonRateLimiter"
        THEN [crashed |-> TRUE, mp_gauge |-> mp_gauge,
              open_mps |-> open_mps_per_maintainer, open_gauge |-> st.open_gauge]
        ELSE [crashed |-> FALSE, mp_gauge |-> mp_gauge]
             @@ MaintainerRateLimiter_set(st.open_gauge, st.open_mps)

\* -------------------------------------------------------------------- Init
\* What the hoster and the store's proposal table hold when the daemon starts
InitialHosterStates ==
    { [proposals |-> <<>>, merge_proposal |-> EmptyDict],
      [proposals |->
          << [package |-> "pkg-a", branch_name |-> "lintian-fixes",
              status |-> "open", revision |-> "B1", can_be_merged |-> Some(FALSE),
              created_by |-> "earlier", limiter_count |-> 0,
              description |-> EARLIER_DESCRIPTION] >>,
       merge_proposal |->
          [u \in {1} |-> [package |-> "pkg-a", revision |-> "B1",
                          status |-> "open"]]],
      [proposals |->
          << [package |-> "pkg-x", branch_name |-> "lintian-fixes",
              status |-> "open", revision |-> "X1", can_be_merged |-> Some(TRUE),
              created_by |-> "earlier", limiter_count |-> 0,
              description |-> EARLIER_DESCRIPTION],
             [package |-> "pkg-b", branch_name |-> "lintian-fixes",
              status |-> "merged", revision |-> "D0", can_be_merged |-> Some(TRUE),
              created_by |-> "earlier", limiter_count |-> 0,
              description |-> EARLIER_DESCRIPTION] >>,
       merge_proposal |->
          [u \in {2} |-> [package |-> "pkg-b", revision |-> "D0",
                          status |-> "open"]]] }

DriverIdle(pass) ==
    [pc |-> "check_existing", pass |-> pass, listing |-> <<>>, todo |-> <<>>,
     open_mps |-> EmptyDict,
     status_count |-> EmptyDict, branch_name |-> NoValue, row |-> NoValue]

Init ==
    /\ policy \in [Packages -> SUPPORTED_MODES]
    /\ max_mps_per_maintainer \in 0..MaxCap
    /\ push_permitted \in BOOLEAN
    /\ branch_fault \in {[p \in Packages |-> f] : f \in {"none", "branch-unavailable"}}
    /\ runs = run_table
    /\ publish = <<>>
    /\ queue = {}
    /\ \E h \in InitialHosterStates :
          /\ proposals = h.proposals
          /\ merge_proposal = h.merge_proposal
    /\ open_mps_per_maintainer = NoValue
    /\ open_proposal_count = EmptyDict
    /\ merge_proposal_count = EmptyDict
    /\ proposal_rate_limited_count = EmptyDict
    /\ driver = DriverIdle(0)
    /\ handlers = {}
    /\ n_requests = 0
    /\ alive = TRUE
    /\ set_called = FALSE
    /\ inc_calls = [m \in Maintainers |-> 0]
    /\ publish_one_calls = {}
    /\ pass_end = NoValue
    /\ WorkerNotStarted
    /\ VcsStoreEmpty
    /\ BlurbIdle
    /\ ProcessIdle
    /\ WatchdogIdle

\* ------------------------------------------------- process_queue_loop task
\* What a check_existing step leaves behind, given the state st it computed and
\* the proposals still to visit.  After the last proposal the function runs to
\* its end without suspending.
ReconcileCommit(st, rest) ==
    LET fin == reconcile_finish(st)
        done == rest = <<>> /\ ~st.crashed
    IN  /\ merge_proposal' = st.mps
        /\ proposals' = st.props
        /\ publish' = st.rows
        /\ queue' = st.q
        /\ publish_one_calls' = st.calls
        /\ merge_proposal_count' = IF done THEN fin.mp_gauge ELSE st.mp_gauge
        /\ open_proposal_count' = IF done THEN fin.open_gauge ELSE st.open_gauge
        /\ open_mps_per_maintainer' =
               IF done THEN fin.open_mps ELSE open_mps_per_maintainer
        /\ set_called' = (set_called \/ (done /\ ~fin.crashed))
        /\ alive' = (~st.crashed /\ ~(done /\ fin.crashed))
        /\ driver' =
               IF done
               THEN [DriverIdle(driver.pass) EXCEPT !.pc = "sleep"]
               ELSE [driver EXCEPT !.pc = "ce_loop", !.todo = rest,
                                   !.listing = IF driver.pc = "check_existing"
                                               THEN rest ELSE @,
                                   !.open_mps = st.open_mps,
                                   !.status_count = st.status_count,
                                   !.branch_name = st.branch_name]
        /\ UNCHANGED <<vcs_vars, blurb_vars, process_vars, watchdog_vars, worker_vars, config_vars, handlers, n_requests, inc_calls,
                       proposal_rate_limited_count, pass_end>>

\* check_existing from its call to its first await
CheckExistingStart ==
    /\ alive
    /\ driver.pc = "check_existing"
    /\ driver.pass < MaxPasses
    /\ LET st == [ReconcileState EXCEPT
                     !.open_mps = EmptyDict,
                     !.status_count = [s \in {"open", "closed", "merged"} |-> 0],
                     !.branch_name = NoValue]
       IN  ReconcileCommit(st, iter_all_mps(proposals))

\* check_existing for one proposal: the loop body from set_proposal_status to
\* the end of the iteration.  The store calls inside the body are taken in one
\* step; other tasks run between two proposals.
CheckExistingStep ==
    /\ alive
    /\ driver.pc = "ce_loop"
    /\ LET mp == Head(driver.todo)
       IN  ReconcileCommit(reconcile_one(ReconcileState, mp[1], mp[2]),
                           Tail(driver.todo))

\* A variant of proposal_is_new that does not look at is_new
proposal_is_present(proposal, is_new) == proposal # NoValue

\* "if proposal and is_new:" before rate_limiter.inc
proposal_is_new(proposal, is_new) == proposal # NoValue /\ is_new

\* asyncio.sleep(interval) returns and publish_pending_new starts its query
PublishPendingStart ==
    /\ alive
    /\ driver.pc = "sleep"
    /\ driver' = [driver EXCEPT !.pc = "pp_loop", !.todo = iter_publish_ready]
    /\ UNCHANGED <<vcs_vars, blurb_vars, process_vars, watchdog_vars, worker_vars, config_vars, store_vars, proposals, limiter_vars, metric_vars,
                   handlers, n_requests, alive, history_vars>>

\* The driver after it is done with the run at the head of its list: the next
\* run, or the next iteration of process_queue_loop
NextRun ==
    IF Tail(driver.todo) = <<>> THEN DriverIdle(driver.pass + 1)
    ELSE [driver EXCEPT !.pc = "pp_loop", !.todo = Tail(driver.todo),
                        !.row = NoValue]

\* A variant of rate_limited_mode that downgrades attempt-push only
rate_limited_mode_push_only(mode, is_allowed) ==
    IF ~is_allowed /\ mode = MODE_ATTEMPT_PUSH THEN MODE_PUSH ELSE mode

\* Lines 459-468 of publish_pending_new: the downgrade when rate-limited
rate_limited_mode(mode, is_allowed) ==
    IF ~is_allowed /\ mode \in {MODE_PROPOSE, MODE_ATTEMPT_PUSH}
    THEN IF mode = MODE_PROPOSE THEN MODE_BUILD_ONLY ELSE MODE_PUSH
    ELSE mode

\* Lines 469-474: attempt-push never reaches a collab-maint repository
collab_maint_mode(mode, main_branch_url) ==
    IF mode = MODE_ATTEMPT_PUSH /\ ContainsSalsaDebian(main_branch_url)
    THEN MODE_PROPOSE
    ELSE mode

\* The mode publish_pending_new hands to publish_one
effective_mode(mode, is_allowed, main_branch_url) ==
    collab_maint_mode(rate_limited_mode(mode, is_allowed), main_branch_url)

\* publish_pending_new for one run, from the top of the loop to its next await:
\* the run is skipped, or published and its Publication is about to be stored
PublishPendingRun ==
    /\ alive
    /\ driver.pc = "pp_loop"
    /\ LET run == runs[Head(driver.todo)]
           pkg == run.package
           maintainer_email == package_table[pkg].maintainer_email
           main_branch_url == package_table[pkg].branch_url
           policy_mode == apply_policy(pkg)
           is_allowed == allowed(maintainer_email)
           limited == ~is_allowed /\ policy_mode \in {MODE_PROPOSE, MODE_ATTEMPT_PUSH}
           mode == effective_mode(policy_mode, is_allowed, main_branch_url)
           o == publish_one(proposals, merge_proposal_count, open_proposal_count,
                            run, mode, maintainer_email, None, "publish_pending",
                            IF open_mps_per_maintainer = NoValue THEN 0
                            ELSE DictGet(open_mps_per_maintainer[1],
                                         maintainer_email, 0))
           created == o.code = "success" /\ proposal_is_new(o.proposal, o.is_new)
           lim == IF created
                  THEN rate_limiter_inc(open_mps_per_maintainer, o.open_gauge,
                                        maintainer_email)
                  ELSE [open_mps |-> open_mps_per_maintainer,
                        open_gauge |-> o.open_gauge]
           row == [package |-> pkg,
                   branch_name |-> IF o.code = "success" THEN o.branch_name ELSE None,
                   main_branch_revision |-> run.main_branch_revision,
                   revision |-> run.revision, mode |-> mode, code |-> o.code,
                   proposal_url |-> o.proposal, by |-> "publish_pending"]
           \* publish_one raised something other than PublishFailure
           raised == /\ policy_mode \notin {MODE_BUILD_ONLY, MODE_SKIP}
                     /\ ~already_published(pkg, run.branch_name, run.revision,
                                           policy_mode)
                     /\ mode \notin {MODE_BUILD_ONLY, MODE_SKIP}
                     /\ o.code \in UNCAUGHT
       IN  /\ alive' = ~raised
           /\ IF policy_mode \in {MODE_BUILD_ONLY, MODE_SKIP}
                 \/ already_published(pkg, run.branch_name, run.revision, policy_mode)
              THEN /\ driver' = NextRun
                   /\ UNCHANGED <<proposals, limiter_vars, metric_vars,
                                  publish_one_calls>>
              ELSE /\ proposal_rate_limited_count' =
                          IF limited
                          THEN DictSetDefaultInc(proposal_rate_limited_count, pkg)
                          ELSE proposal_rate_limited_count
                   /\ IF mode \in {MODE_BUILD_ONLY, MODE_SKIP}
                      THEN /\ driver' = NextRun
                           /\ UNCHANGED <<proposals, limiter_vars, open_proposal_count,
                                          merge_proposal_count, publish_one_calls>>
                      ELSE /\ proposals' = o.proposals
                           /\ merge_proposal_count' = o.mp_gauge
                           /\ open_proposal_count' = lim.open_gauge
                           /\ open_mps_per_maintainer' = lim.open_mps
                           /\ inc_calls' =
                                  IF created
                                  THEN [inc_calls EXCEPT ![maintainer_email] = @ + 1]
                                  ELSE inc_calls
                           /\ publish_one_calls' = publish_one_calls \cup
                                  {[by |-> "publish_pending", package |-> pkg,
                                    policy_mode |-> policy_mode, mode |-> mode,
                                    allowed |-> is_allowed]}
                           /\ driver' = IF raised THEN driver
                                         ELSE [driver EXCEPT !.pc = "pp_store",
                                                             !.row = Some(row)]
                           /\ UNCHANGED set_called
    /\ pass_end' = IF driver'.pc = "check_existing"
                   THEN Some([proposals |-> proposals',
                              open_mps |-> open_mps_per_maintainer',
                              n_rows |-> Len(publish)])
                   ELSE pass_end
    /\ UNCHANGED <<vcs_vars, blurb_vars, process_vars, watchdog_vars, worker_vars, config_vars, store_vars, handlers, n_requests>>

\* await state.store_publish(...) of publish_pending_new completes
PublishPendingStore ==
    /\ alive
    /\ driver.pc = "pp_store"
    /\ publish' = store_publish_rows(publish, driver.row[1])
    /\ merge_proposal' = store_publish_mps(merge_proposal, driver.row[1])
    /\ driver' = NextRun
    /\ pass_end' = IF driver'.pc = "check_existing"
                   THEN Some([proposals |-> proposals,
                              open_mps |-> open_mps_per_maintainer,
                              n_rows |-> Len(publish')])
                   ELSE pass_end
    /\ UNCHANGED <<vcs_vars, blurb_vars, process_vars, watchdog_vars, worker_vars, config_vars, queue, proposals, limiter_vars, metric_vars,
                   handlers, n_requests, alive, publish_one_calls>>

\* ---------------------------------------------------- publish_request handler
\* POST /{suite}/{package}/publish, from its arrival to the await of
\* state.get_last_unmerged_success: 400, 429 and "nothing to do" answer at once
\* main starts run_web_server in loop mode only
web_server_running == driver.pc \notin {"once", "exit"}

PublishRequestArrive ==
    /\ alive
    /\ web_server_running
    /\ n_requests < MaxRequests
    /\ \E package \in Packages \cup {"pkg-x"}, mode \in SUPPORTED_MODES :
          /\ n_requests' = n_requests + 1
          /\ handlers' =
                 IF package \notin Packages
                 THEN handlers
                 ELSE IF mode \in {MODE_PROPOSE, MODE_ATTEMPT_PUSH}
                         /\ ~allowed(package_table[package].maintainer_email)
                 THEN handlers
                 ELSE IF mode \in {MODE_SKIP, MODE_BUILD_ONLY}
                 THEN handlers
                 ELSE handlers \cup {[id |-> n_requests + 1, package |-> package,
                                      suite |-> "lintian-fixes", mode |-> mode]}
    /\ UNCHANGED <<vcs_vars, blurb_vars, process_vars, watchdog_vars, worker_vars, config_vars, store_vars, proposals, limiter_vars, metric_vars,
                   driver, alive, history_vars>>

\* The handler resumes with the run, publishes it and answers
PublishRequestPublish ==
    /\ alive
    /\ \E h \in handlers :
          LET maintainer_email == package_table[h.package].maintainer_email
              run == get_last_unmerged_success(h.package, h.suite)
              o == publish_one(proposals, merge_proposal_count,
                               open_proposal_count, run[1], h.mode,
                               maintainer_email, "True", "publish_request",
                               IF open_mps_per_maintainer = NoValue THEN 0
                               ELSE DictGet(open_mps_per_maintainer[1],
                                            maintainer_email, 0))
              created == o.code = "success" /\ proposal_is_new(o.proposal, o.is_new)
              lim == IF created
                     THEN rate_limiter_inc(open_mps_per_maintainer, o.open_gauge,
                                           maintainer_email)
                     ELSE [open_mps |-> open_mps_per_maintainer,
                           open_gauge |-> o.open_gauge]
          IN  /\ handlers' = handlers \ {h}
              /\ IF run = NoValue
                 THEN UNCHANGED <<proposals, limiter_vars, metric_vars,
                                  publish_one_calls>>
                 ELSE /\ proposals' = o.proposals
                      /\ merge_proposal_count' = o.mp_gauge
                      /\ open_proposal_count' = lim.open_gauge
                      /\ open_mps_per_maintainer' = lim.open_mps
                      /\ inc_calls' =
                             IF created
                             THEN [inc_calls EXCEPT ![maintainer_email] = @ + 1]
                             ELSE inc_calls
                      /\ publish_one_calls' = publish_one_calls \cup
                             {[by |-> "publish_request", package |-> h.package,
                               policy_mode |-> None, mode |-> h.mode,
                               allowed |-> allowed(maintainer_email)]}
                      /\ UNCHANGED <<set_called, proposal_rate_limited_count>>
    /\ UNCHANGED <<vcs_vars, blurb_vars, process_vars, watchdog_vars, worker_vars, config_vars, store_vars, driver, n_requests, alive, pass_end>>

\* -------------------------------------------------------------------- Next
Next ==
    \/ CheckExistingStart
    \/ CheckExistingStep
    \/ PublishPendingStart
    \/ PublishPendingRun
    \/ PublishPendingStore
    \/ PublishRequestArrive
    \/ PublishRequestPublish

Spec == Init /\ [][Next]_vars

\* ------------------------------------------- the limiter class on its own
\* A MaintainerRateLimiter driven directly through its methods, in any order
InitLimiter ==
    /\ policy = [p \in Packages |-> MODE_PROPOSE]
    /\ max_mps_per_maintainer \in 0..MaxCap
    /\ push_permitted = TRUE
    /\ branch_fault = [p \in Packages |-> "none"]
    /\ runs = run_table
    /\ publish = <<>>
    /\ queue = {}
    /\ proposals = <<>>
    /\ merge_proposal = EmptyDict
    /\ open_mps_per_maintainer = NoValue
    /\ open_proposal_count = EmptyDict
    /\ merge_proposal_count = EmptyDict
    /\ proposal_rate_limited_count = EmptyDict
    /\ driver = DriverIdle(0)
    /\ handlers = {}
    /\ n_requests = 0
    /\ alive = TRUE
    /\ set_called = FALSE
    /\ inc_calls = [m \in Maintainers |-> 0]
    /\ publish_one_calls = {}
    /\ pass_end = NoValue
    /\ WorkerNotStarted
    /\ VcsStoreEmpty
    /\ BlurbIdle
    /\ ProcessIdle
    /\ WatchdogIdle

LimiterDicts ==
    UNION {[keys -> 0..MaxCount] : keys \in SUBSET Maintainers}

LimiterSet ==
    \E d \in LimiterDicts :
        LET r == MaintainerRateLimiter_set(open_proposal_count, d)
        IN  /\ open_mps_per_maintainer' = r.open_mps
            /\ open_proposal_count' = r.open_gauge
            /\ set_called' = TRUE
            /\ UNCHANGED <<vcs_vars, blurb_vars, process_vars, watchdog_vars, worker_vars, config_vars, store_vars, proposals, inc_calls,
                           merge_proposal_count, proposal_rate_limited_count,
                           task_vars, history_vars>>

LimiterInc ==
    \E m \in Maintainers :
        LET r == MaintainerRateLimiter_inc(open_mps_per_maintainer,
                                           open_proposal_count, m)
        IN  /\ SumOver(inc_calls, Maintainers) < MaxIncCalls
            /\ open_mps_per_maintainer' = r.open_mps
            /\ open_proposal_count' = r.open_gauge
            /\ inc_calls' = [inc_calls EXCEPT ![m] = @ + 1]
            /\ UNCHANGED <<vcs_vars, blurb_vars, process_vars, watchdog_vars, worker_vars, config_vars, store_vars, proposals, set_called,
                           merge_proposal_count, proposal_rate_limited_count,
                           task_vars, history_vars>>

NextLimiter == LimiterSet \/ LimiterInc

SpecLimiter == InitLimiter /\ [][NextLimiter]_vars

\* ------------------------------------------- the hoster changes on its own
\* A maintainer merges an open proposal on the hosting service
HosterMerge ==
    /\ alive
    /\ \E i \in 1..Len(proposals) :
          /\ proposals[i].status = "open"
          /\ proposals' = [proposals EXCEPT ![i].status = "merged"]
    /\ UNCHANGED <<vcs_vars, blurb_vars, process_vars, watchdog_vars, worker_vars, config_vars, store_vars, limiter_vars, metric_vars, task_vars,
                   history_vars>>

NextHoster == Next \/ HosterMerge

\* The daemon on a hoster that accepts what it is asked, together with
\* maintainers who act on the hoster
InitHoster ==
    /\ Init
    /\ push_permitted
    /\ branch_fault = [p \in Packages |-> "none"]

SpecHoster == InitHoster /\ [][NextHoster]_vars

\* ------------------------------------ the reconciler alone (--no-auto-publish)
\* A store in which pkg-b too has an older run than its latest
reconcile_run_table ==
    << [id |-> "run-0", package |-> "pkg-b", suite |-> "lintian-fixes",
        command |-> "lintian-brush", result_code |-> "success",
        main_branch_revision |-> "C", revision |-> "D0",
        branch_name |-> "lintian-fixes",
        result |-> [applied |-> 1, add_on_only |-> FALSE]] >> \o run_table

\* A run of pkg-b later than the others, with the result code given
later_run(result_code) ==
    [id |-> "run-4", package |-> "pkg-b", suite |-> "lintian-fixes",
     command |-> "lintian-brush", result_code |-> result_code,
     main_branch_revision |-> "C", revision |-> "D2",
     branch_name |-> "lintian-fixes",
     result |-> [applied |-> 0, add_on_only |-> FALSE]]

\* The run tables the reconciler is started on: pkg-b's latest run succeeded
\* with changes, failed, found nothing to do, or found nothing new to do
ReconcileRunTables ==
    { reconcile_run_table,
      Append(reconcile_run_table, later_run("build-failed")),
      Append(reconcile_run_table, later_run("nothing-to-do")),
      Append(reconcile_run_table, later_run("nothing-new-to-do")) }

\* Hosters on which the janitor has an open proposal for each package, made
\* from the older or from the latest run; the hoster says the proposal can be
\* merged, says it cannot, or cannot tell
ReconcileHosterStates ==
    { [proposals |->
          << [package |-> "pkg-a", branch_name |-> "lintian-fixes",
              status |-> "open", revision |-> ra, can_be_merged |-> ca,
              created_by |-> "earlier", limiter_count |-> 0,
              description |-> EARLIER_DESCRIPTION],
             [package |-> "pkg-b", branch_name |-> "lintian-fixes",
              status |-> "open", revision |-> rb, can_be_merged |-> cb,
              created_by |-> "earlier", limiter_count |-> 0,
              description |-> EARLIER_DESCRIPTION] >>,
       merge_proposal |->
          [u \in {1, 2} |->
              IF u = 1 THEN [package |-> "pkg-a", revision |-> ra, status |-> "open"]
              ELSE [package |-> "pkg-b", revision |-> rb, status |-> "open"]]] :
      ra \in {"B1", "B2"}, rb \in {"D0", "D1"},
      ca \in {Some(TRUE), Some(FALSE), NoValue},
      cb \in {Some(TRUE), Some(FALSE), NoValue} }
    \cup
    \* a conflicted proposal that the store has no record of
    { [proposals |->
          << [package |-> "pkg-x", branch_name |-> "lintian-fixes",
              status |-> "open", revision |-> "X1", can_be_merged |-> Some(FALSE),
              created_by |-> "earlier", limiter_count |-> 0,
              description |-> EARLIER_DESCRIPTION] >>,
       merge_proposal |-> EmptyDict] }

InitReconcile ==
    /\ policy = [p \in Packages |-> MODE_SKIP]
    /\ max_mps_per_maintainer \in 0..MaxCap
    /\ push_permitted = TRUE
    /\ branch_fault \in [Packages -> {"none", "branch-unavailable"}]
    /\ runs \in ReconcileRunTables
    /\ publish = <<>>
    /\ queue = {}
    /\ \E h \in ReconcileHosterStates \cup InitialHosterStates :
          /\ proposals = h.proposals
          /\ merge_proposal = h.merge_proposal
    /\ open_mps_per_maintainer = NoValue
    /\ open_proposal_count = EmptyDict
    /\ merge_proposal_count = EmptyDict
    /\ proposal_rate_limited_count = EmptyDict
    /\ driver = DriverIdle(0)
    /\ handlers = {}
    /\ n_requests = 0
    /\ alive = TRUE
    /\ set_called = FALSE
    /\ inc_calls = [m \in Maintainers |-> 0]
    /\ publish_one_calls = {}
    /\ pass_end = NoValue
    /\ WorkerNotStarted
    /\ VcsStoreEmpty
    /\ BlurbIdle
    /\ ProcessIdle
    /\ WatchdogIdle

\* process_queue_loop with auto_publish false: the sleep ends, the loop goes
\* round
SleepNoAutoPublish ==
    /\ alive
    /\ driver.pc = "sleep"
    /\ driver' = DriverIdle(driver.pass + 1)
    /\ UNCHANGED <<vcs_vars, blurb_vars, process_vars, watchdog_vars, worker_vars, config_vars, store_vars, proposals, limiter_vars, metric_vars,
                   handlers, n_requests, alive, history_vars>>

NextReconcile ==
    \/ CheckExistingStart
    \/ CheckExistingStep
    \/ SleepNoAutoPublish

SpecReconcile == InitReconcile /\ [][NextReconcile]_vars

\* ------------------------------------------------------------------ claims
MaintainerOf(pkg) ==
    IF pkg \in Packages THEN package_table[pkg].maintainer_email ELSE None

LimiterCount(m) ==
    IF open_mps_per_maintainer = NoValue THEN 0
    ELSE DictGet(open_mps_per_maintainer[1], m, 0)

\* C1: every publish_one call publish_pending makes for a run whose policy mode
\* is attempt-push and whose main branch URL contains salsa.debian.org/debian/
\* has mode propose, whatever the rate limiter says.
C1_AttemptPushOnSalsaIsPropose ==
    \A c \in publish_one_calls :
        (/\ c.by = "publish_pending"
         /\ c.policy_mode = MODE_ATTEMPT_PUSH
         /\ ContainsSalsaDebian(package_table[c.package].branch_url))
        => c.mode = MODE_PROPOSE

\* C2: with a cap > 0, every proposal created by publish_pending or by an
\* on-demand request was created while the limiter's count for its maintainer
\* was below the cap.
C2_NoProposalAtOrAboveCap ==
    max_mps_per_maintainer > 0 =>
        \A i \in 1..Len(proposals) :
            proposals[i].created_by \in {"publish_pending", "publish_request"}
            => proposals[i].limiter_count < max_mps_per_maintainer

PublicationKey(row) ==
    <<row.package, row.branch_name, row.main_branch_revision, row.revision, row.mode>>

\* C3: no two Publication rows with a non-error code that publish_pending
\* stored share (package, branch name, main-branch revision, revision, mode).
C3_OnePublicationPerTuple ==
    \A i, j \in 1..Len(publish) :
        (/\ i < j
         /\ publish[i].by = "publish_pending"
         /\ publish[j].by = "publish_pending"
         /\ publish[i].code = "success"
         /\ publish[j].code = "success")
        => PublicationKey(publish[i]) # PublicationKey(publish[j])

\* C5: a MaintainerRateLimiter with a cap > 0 allows nobody before the first
\* set_open_mps_per_maintainer, whatever inc calls were made; afterwards it
\* allows a maintainer exactly when the maintainer's count is below the cap.
C5_AllowedOnlyOnceSeeded ==
    max_mps_per_maintainer > 0 =>
        \A m \in Maintainers :
            /\ ~set_called => ~MaintainerRateLimiter_allowed(m)
            /\ set_called =>
                  (MaintainerRateLimiter_allowed(m)
                      <=> LimiterCount(m) < max_mps_per_maintainer)

\* C5 witness: inc was called on a limiter that was never seeded
C5_Witness ==
    /\ max_mps_per_maintainer > 0
    /\ ~set_called
    /\ \E m \in Maintainers : inc_calls[m] > 0

\* C4: when a publish_pending pass meets the state the previous pass left
\* (same hoster proposals, same limiter map, same Publication rows), it goes
\* on to publish no run, so it adds no Publication row.
C4_SecondPassAddsNoRow ==
    [][(/\ driver.pc = "pp_loop"
        /\ pass_end # NoValue
        /\ proposals = pass_end[1].proposals
        /\ open_mps_per_maintainer = pass_end[1].open_mps
        /\ Len(publish) = pass_end[1].n_rows)
       => driver'.pc # "pp_store"]_vars

\* The open proposals on the hoster that belong to a package of maintainer m
OpenProposalsOf(m) ==
    {i \in 1..Len(proposals) :
        proposals[i].status = "open" /\ MaintainerOf(proposals[i].package) = m}

\* C6: while the limiter is seeded and no check_existing pass is in progress,
\* its count for every maintainer is the number of that maintainer's open
\* proposals.
C6_CountEqualsOpenProposals ==
    (/\ alive
     /\ max_mps_per_maintainer > 0
     /\ open_mps_per_maintainer # NoValue
     /\ driver.pc # "ce_loop")
    => \A m \in Maintainers : LimiterCount(m) = Cardinality(OpenProposalsOf(m))

\* The proposals a check_existing pass lists, at the step that ends the pass
ObservedListing ==
    IF driver.pc = "check_existing" THEN iter_all_mps(proposals) ELSE driver.listing

ObservedOpen == {i \in 1..Len(ObservedListing) : ObservedListing[i][2] = "open"}

CheckExistingReturns ==
    /\ driver.pc \in {"check_existing", "ce_loop"}
    /\ driver'.pc = "sleep"
    /\ alive'

\* C7 as claimed: when check_existing returns, the counts it hands to the
\* limiter add up to the number of proposals it saw in status open.
C7_SumEqualsObservedOpen ==
    [][CheckExistingReturns
       => DictSum(open_mps_per_maintainer'[1]) = Cardinality(ObservedOpen)]_vars

\* C7 as amended: when check_existing returns, the counts it hands to the
\* limiter add up to the number of proposals it saw in status open for which
\* the store knows a maintainer.
C7_SumEqualsObservedOpenWithMaintainer ==
    [][CheckExistingReturns
       => DictSum(open_mps_per_maintainer'[1])
            = Cardinality({i \in ObservedOpen :
                  MaintainerOf(proposals[ObservedListing[i][1]].package) # None})]_vars

\* C7 witness: a pass has returned after it saw an open proposal of a known
\* maintainer and an open proposal nobody in the store maintains
C7_Witness ==
    /\ driver.pc = "sleep"
    /\ merge_proposal_count["open"] >= 2
    /\ \E i \in 1..Len(proposals) :
          proposals[i].status = "open" /\ MaintainerOf(proposals[i].package) = None
    /\ \E m \in Maintainers : LimiterCount(m) >= 1

\* The proposals the hoster created in the step, for packages of maintainer m
NewProposalsOf(m) ==
    {i \in (Len(proposals) + 1)..Len(proposals') :
        MaintainerOf(proposals'[i].package) = m}

C9_GaugeUpByOne ==
    [][/\ \A m \in Maintainers :
             (driver.pc = "pp_loop" /\ driver'.pc = "pp_store"
                 /\ NewProposalsOf(m) # {})
             => open_proposal_count'[m] = DictGet(open_proposal_count, m, 0) + 1
       /\ (driver.pc = "pp_store" /\ driver.row[1].proposal_url # NoValue
              /\ driver' # driver)
          => /\ Len(publish') = Len(publish) + 1
             /\ publish'[Len(publish')].code = "success"
             /\ publish'[Len(publish')].proposal_url = driver.row[1].proposal_url]_vars

\* C10: the step of publish_pending that meets a run whose policy mode is
\* propose while the limiter does not allow its maintainer calls publish_one
\* for nothing, touches no proposal and leaves no Publication to store.
C10_RateLimitedProposeIsSkipped ==
    [][(/\ driver.pc = "pp_loop"
        /\ driver' # driver
        /\ apply_policy(runs[Head(driver.todo)].package) = MODE_PROPOSE
        /\ ~allowed(MaintainerOf(runs[Head(driver.todo)].package)))
       => /\ driver'.pc # "pp_store"
          /\ proposals' = proposals
          /\ publish_one_calls' = publish_one_calls
          /\ publish' = publish]_vars

\* C10 witness: publish_pending has met such a run (the rate-limited counter
\* of a package whose policy is propose is up) and stored nothing for it
C10_Witness ==
    \E p \in Packages :
        /\ policy[p] = MODE_PROPOSE
        /\ DictGet(proposal_rate_limited_count, p, 0) > 0
        /\ driver.pc = "check_existing"
        /\ \A i \in 1..Len(publish) :
              publish[i].package = p => publish[i].by # "publish_pending"

\* C11: no proposal on the hoster was created by check_existing, and no
\* Publication row with code success that check_existing stored points to a
\* proposal it created.
C11_ReconcilerNeverCreates ==
    /\ \A i \in 1..Len(proposals) : proposals[i].created_by # "check_existing"
    /\ \A j \in 1..Len(publish) :
          (/\ publish[j].by = "check_existing"
           /\ publish[j].code = "success"
           /\ publish[j].proposal_url # NoValue)
          => proposals[publish[j].proposal_url[1]].created_by # "check_existing"

\* check_existing, at the proposal it is about to visit, goes on to call
\* publish_one: the proposal is open, the store knows its run and a later run
\* with changes exists
ReconcilePublishes(url, status) ==
    /\ status = "open"
    /\ LET mp_run == get_merge_proposal_run(
                         set_proposal_status(merge_proposal, url, status), url)
       IN  /\ mp_run # NoValue
           /\ ScanRecentRuns(RunsBefore(
                  iter_previous_runs(mp_run[1].package, mp_run[1].suite),
                  mp_run[1])).kind = "publish"

\* A step of a check_existing pass that follows a completed pass with nothing
\* in between
SecondPassStep ==
    /\ driver.pass >= 1
    /\ driver.pc = "ce_loop"
    /\ driver' # driver

ReconcileVisit(url) ==
    /\ driver.pc = "ce_loop"
    /\ driver' # driver
    /\ Head(driver.todo)[1] = url

\* The refresh request check_existing makes for the proposal's own package
\* and campaign
RefreshRequests(url) ==
    {q \in queue' : /\ q.package = proposals[url].package
                    /\ q.suite = proposals[url].branch_name
                    /\ q.offset = -2
                    /\ q.refresh}

\* The store knows the run the proposal was made from, and every later run of
\* its package and campaign found nothing to do
UpToDate(url) ==
    LET mp_run == get_merge_proposal_run(
                      set_proposal_status(merge_proposal, url, "open"), url)
    IN  /\ mp_run # NoValue
        /\ ScanRecentRuns(RunsBefore(
               iter_previous_runs(mp_run[1].package, mp_run[1].suite),
               mp_run[1])).kind = "else"

\* C13 as claimed: the visit of an open proposal that the pass does not update
\* and that the hoster flags as conflicted enqueues one refresh (offset -2) for
\* the proposal's package and campaign and leaves the proposal alone; the
\* visit of a proposal that is updated, or whose conflict state the hoster
\* cannot tell, enqueues nothing.
C13_ConflictedIsRescheduled ==
    [][\A url \in 1..Len(proposals) :
          (ReconcileVisit(url) /\ Head(driver.todo)[2] = "open")
          => /\ (/\ proposals'[url] = proposals[url]
                 /\ proposals[url].can_be_merged = Some(FALSE))
                => /\ RefreshRequests(url) # {}
                   /\ queue' \ queue \subseteq RefreshRequests(url)
                   /\ Cardinality(queue' \ queue) <= 1
                   /\ proposals' = proposals
             /\ (proposals'[url] # proposals[url]
                    \/ proposals[url].can_be_merged = NoValue)
                => queue' = queue]_vars

\* C13 as amended: the same, for a conflicted proposal whose run the store
\* knows and after which no run failed or brought changes; every other
\* proposal is left out of the queue.
C13_UpToDateConflictedIsRescheduled ==
    [][\A url \in 1..Len(proposals) :
          (ReconcileVisit(url) /\ Head(driver.todo)[2] = "open")
          => /\ (/\ UpToDate(url)
                 /\ proposals[url].can_be_merged = Some(FALSE))
                => /\ RefreshRequests(url) # {}
                   /\ queue' \ queue \subseteq RefreshRequests(url)
                   /\ Cardinality(queue' \ queue) <= 1
                   /\ proposals' = proposals
             /\ (~UpToDate(url) \/ proposals[url].can_be_merged # Some(FALSE))
                => queue' = queue]_vars

\* C13 witness: a pass is over that put a refresh for pkg-b in the queue while
\* pkg-a's conflicted proposal, updated in the pass, got none
C13_Witness ==
    /\ driver.pc = "sleep"
    /\ driver.pass = 0
    /\ \E q \in queue : q.package = "pkg-b" /\ q.offset = -2
    /\ \A q \in queue : q.package # "pkg-a"
    /\ \E j \in 1..Len(publish) :
          /\ publish[j].by = "check_existing"
          /\ publish[j].package = "pkg-a"
          /\ publish[j].code = "success"


\* ------------------------------------------- publish_pending under failures
\* Run tables for the failure cases: the usual one, and one whose newest
\* pkg-a run was made by a command publish_one has no subrunner for
FaultRunTables ==
    { run_table,
      [run_table EXCEPT ![2].command = "frobnicate"] }

\* Hoster states with an open pkg-a proposal on the janitor's branch whose
\* description carries no blurb (opened or edited by a person): unknown to
\* the store, or known to it at the newest revision
FaultHosterStates ==
    { [proposals |->
          << [package |-> "pkg-a", branch_name |-> "lintian-fixes",
              status |-> "open", revision |-> "B2", can_be_merged |-> Some(TRUE),
              created_by |-> "earlier", limiter_count |-> 0,
              description |-> <<"Fix lintian issues by hand">>] >>,
       merge_proposal |-> mps]
        : mps \in { EmptyDict,
                    [u \in {1} |-> [package |-> "pkg-a", revision |-> "B2",
                                    status |-> "open"]] } }

InitFaults ==
    /\ policy \in [Packages -> {MODE_PROPOSE, MODE_PUSH}]
    /\ max_mps_per_maintainer \in 1..MaxCap
    /\ push_permitted \in BOOLEAN
    /\ branch_fault \in [Packages -> {"none", "branch-unavailable"}]
    /\ runs \in FaultRunTables
    /\ publish = <<>>
    /\ queue = {}
    /\ \E h \in FaultHosterStates \cup InitialHosterStates :
          /\ proposals = h.proposals
          /\ merge_proposal = h.merge_proposal
    /\ open_mps_per_maintainer = NoValue
    /\ open_proposal_count = EmptyDict
    /\ merge_proposal_count = EmptyDict
    /\ proposal_rate_limited_count = EmptyDict
    /\ driver = DriverIdle(0)
    /\ handlers = {}
    /\ n_requests = 0
    /\ alive = TRUE
    /\ set_called = FALSE
    /\ inc_calls = [m \in Maintainers |-> 0]
    /\ publish_one_calls = {}
    /\ pass_end = NoValue
    /\ WorkerNotStarted
    /\ VcsStoreEmpty
    /\ BlurbIdle
    /\ ProcessIdle
    /\ WatchdogIdle

SpecFaults == InitFaults /\ [][Next]_vars

\* C14: a failure while publishing one run never prevents the remaining runs
\* of the pass from being processed: no step publish_pending takes for a run
\* (a publication failure, an existing description that cannot be stripped,
\* an unrecognised command) ends the pass or the daemon.
C14_FailureNeverEndsThePass ==
    [][(alive /\ driver.pc = "pp_loop") => alive']_vars


\* ------------------------------------------------------ main: --once mode
\* "if args.once:" of main: publish_pending_new is called with the policy in
\* the place of the rate limiter and without its policy argument, which is a
\* TypeError at the call; no check_existing comes before it
MainOnce ==
    /\ alive
    /\ driver.pc = "once"
    /\ alive' = FALSE
    /\ driver' = [driver EXCEPT !.pc = "exit"]
    /\ UNCHANGED <<vcs_vars, blurb_vars, process_vars, watchdog_vars, worker_vars, config_vars, store_vars, proposals, limiter_vars, metric_vars,
                   handlers, n_requests, history_vars>>

NextMain == Next \/ MainOnce

\* The daemon in either mode of main, on a reachable hoster
InitMain ==
    /\ policy \in [Packages -> SUPPORTED_MODES]
    /\ max_mps_per_maintainer \in 0..MaxCap
    /\ push_permitted = TRUE
    /\ branch_fault = [p \in Packages |-> "none"]
    /\ runs = run_table
    /\ publish = <<>>
    /\ queue = {}
    /\ \E h \in InitialHosterStates :
          /\ proposals = h.proposals
          /\ merge_proposal = h.merge_proposal
    /\ open_mps_per_maintainer = NoValue
    /\ open_proposal_count = EmptyDict
    /\ merge_proposal_count = EmptyDict
    /\ proposal_rate_limited_count = EmptyDict
    /\ driver \in {DriverIdle(0), [DriverIdle(0) EXCEPT !.pc = "once"]}
    /\ handlers = {}
    /\ n_requests = 0
    /\ alive = TRUE
    /\ set_called = FALSE
    /\ inc_calls = [m \in Maintainers |-> 0]
    /\ publish_one_calls = {}
    /\ pass_end = NoValue
    /\ WorkerNotStarted
    /\ VcsStoreEmpty
    /\ BlurbIdle
    /\ ProcessIdle
    /\ WatchdogIdle

SpecMain == InitMain /\ [][NextMain]_vars

\* The driver calls publish_pending_new: from the sleep of process_queue_loop,
\* or from main in --once mode
CallsPublishPending ==
    /\ alive
    /\ driver.pc \in {"sleep", "once"}
    /\ driver' # driver

MaxFrames == 2

publisher_vars == <<config_vars, store_vars, proposals, limiter_vars, metric_vars, task_vars, history_vars>>

\* The steps run_worker's thread executes, in the order of process_package
\* and run_worker: workspace, recipe, (build), mirror
RunWorkerSteps == {"workspace", "recipe", "build", "mirror"}

\* WorkerFailure(code, description) as the steps raise it
WorkerFailure(code) ==
    [kind |-> "WorkerFailure", code |-> code,
     description |-> CASE code = "branch-unavailable" -> "Branch unavailable"
                       [] code = "nothing-to-do" -> "Nothing to do."
                       [] code = "build-failed" -> "Build failed"
                       [] OTHER -> "Push failed"]

\* What a step of run_worker can end in, besides going on to the next step
StepFailures(step) ==
    CASE step = "workspace" -> {WorkerFailure("branch-unavailable")}
      [] step = "recipe" ->
            {WorkerFailure("nothing-to-do"),
             [kind |-> "OSError", code |-> "ENOSPC",
              description |-> "No space left on device"],
             [kind |-> "OSError", code |-> "EIO",
              description |-> "Input/output error"],
             [kind |-> "Exception", code |-> None,
              description |-> "KeyError: 'x'"]}
      [] step = "build" -> {WorkerFailure("build-failed")}
      [] OTHER -> {WorkerFailure("result-push-failed")}

\* The steps that can follow a step that succeeded; "done" is the return
NextSteps(step) ==
    CASE step = "workspace" -> {"recipe"}
      [] step = "recipe" -> {"build", "mirror"}
      [] step = "build" -> {"mirror"}
      [] OTHER -> {"done"}

WorkerResult ==
    [kind |-> "result", code |-> None, description |-> "Applied changes"]

\* A variant of the except clauses of main that has no clause for
\* WorkerFailure
main_except_uncoded(task_state, result) ==
    IF task_state = "cancelled"
    THEN [code |-> "worker-failure",
          description |-> "asyncio.exceptions.CancelledError", ending |-> "raise"]
    ELSE IF result.kind = "OSError" /\ result.code = "ENOSPC"
    THEN [code |-> "no-space-on-device", description |-> result.description,
          ending |-> "fall through"]
    ELSE IF result.kind = "OSError"
    THEN [code |-> "worker-exception", description |-> result.description,
          ending |-> "raise"]
    ELSE IF result.kind = "result"
    THEN [code |-> None, description |-> result.description, ending |-> "return 0"]
    ELSE [code |-> "worker-failure", description |-> result.description,
          ending |-> "raise"]

\* A variant of the except clauses of main that has no clause for OSError
main_except_no_oserror(task_state, result) ==
    IF task_state = "cancelled"
    THEN [code |-> "worker-failure",
          description |-> "asyncio.exceptions.CancelledError", ending |-> "raise"]
    ELSE IF result.kind = "WorkerFailure"
    THEN [code |-> result.code, description |-> result.description,
          ending |-> "return 0"]
    ELSE IF result.kind = "result"
    THEN [code |-> None, description |-> result.description, ending |-> "return 0"]
    ELSE [code |-> "worker-failure", description |-> result.description,
          ending |-> "raise"]

\* "result = await main_task" of main with its except and else clauses: the
\* code and description put into metadata, and how main goes on
main_except(task_state, result) ==
    IF task_state = "cancelled"
    THEN [code |-> "worker-failure",
          description |-> "asyncio.exceptions.CancelledError", ending |-> "raise"]
    ELSE IF result.kind = "WorkerFailure"
    THEN [code |-> result.code, description |-> result.description,
          ending |-> "return 0"]
    ELSE IF result.kind = "OSError" /\ result.code = "ENOSPC"
    THEN [code |-> "no-space-on-device", description |-> result.description,
          ending |-> "fall through"]
    ELSE IF result.kind = "OSError"
    THEN [code |-> "worker-exception", description |-> result.description,
          ending |-> "raise"]
    ELSE IF result.kind = "result"
    THEN [code |-> None, description |-> result.description, ending |-> "return 0"]
    ELSE [code |-> "worker-failure", description |-> result.description,
          ending |-> "raise"]

\* sys.exit(asyncio.run(main())): the status for each way main ends
ExitStatusOf(ending) == IF ending = "raise" THEN 1 ELSE 0

\* A variant of bundle_results that leaves the finish time out of the body
bundle_results_unfinished(by, md, with_directory) ==
    [by |-> by, code |-> md.code, description |-> md.description,
     finish_time |-> FALSE, files |-> with_directory,
     status |-> "none", response |-> "pending"]

\* bundle_results: the request body is built from metadata when upload_results
\* is called; the output files are attached if a directory is given
bundle_results(by, md, with_directory) ==
    [by |-> by, code |-> md.code, description |-> md.description,
     finish_time |-> md.finish_time, files |-> with_directory,
     status |-> "none", response |-> "pending"]

\* What the server can answer to a POST; "error" is no answer at all (the
\* connection fails or times out and the client raises)
Statuses == {"200", "201", "404", "500", "error"}

\* A variant of upload_results that raises for 404 only
upload_results_404_only(status) ==
    IF status = "404" THEN "rejected"
    ELSE IF status = "error" THEN "error"
    ELSE "accepted"

\* upload_results: ResultUploadFailure ("rejected") for 404 and for every
\* status that is not 200 or 201; otherwise the answer's JSON is returned
upload_results(status) ==
    IF status = "error" THEN "error"
    ELSE IF status = "404" THEN "rejected"
    ELSE IF status \notin {"201", "200"} THEN "rejected"
    ELSE "accepted"

\* The request of a coroutine that is cancelled while it awaits the answer
CancelPost(ps, by) ==
    [i \in 1..Len(ps) |->
        IF ps[i].by = by /\ ps[i].response = "pending"
        THEN [ps[i] EXCEPT !.response = "cancelled"] ELSE ps[i]]

AnswerPost(ps, by, status) ==
    [i \in 1..Len(ps) |->
        IF ps[i].by = by /\ ps[i].response = "pending"
        THEN [ps[i] EXCEPT !.status = status, !.response = upload_results(status)]
        ELSE ps[i]]

\* A variant of the frame test that does not look at the frame type
is_kill_any_type(msg) == msg.data = "kill"

\* WatchdogPetter._connection: the frame that makes it call self.kill
is_kill(msg) == msg.type = "binary" /\ msg.data = "kill"

\* main() up to "await runner.setup()": the assignment is fetched, the
\* watchdog started, metadata created and the signal handlers installed
GetAssignment ==
    /\ main_pc = "get_assignment"
    /\ exit_status = NoValue
    /\ \E answer \in {"assignment", "timeout", "refused"} :
          IF answer = "assignment"
          THEN /\ main_pc' = "site_start"
               /\ UNCHANGED exit_status
          ELSE \* return 1 on a timeout; ValueError leaves main otherwise
               /\ main_pc' = "returned"
               /\ exit_status' = Some(1)
    /\ UNCHANGED <<main_ending, main_task, thread_pc, thread_result, kill,
                   received, metadata, posts, shutdown_pc, kill_at, publisher_vars, vcs_vars, blurb_vars, process_vars, watchdog_vars>>

\* main() from the start of the diagnostics site to "await main_task":
\* run_worker is handed to the executor and the kill callback is set
StartMainTask ==
    /\ main_pc = "site_start"
    /\ main_pc' = "await_main_task"
    /\ main_task' = "pending"
    /\ thread_pc' = "workspace"
    /\ kill' = TRUE
    /\ UNCHANGED <<main_ending, thread_result, received, metadata, posts,
                   shutdown_pc, exit_status, kill_at, publisher_vars, vcs_vars, blurb_vars, process_vars, watchdog_vars>>

\* One step of run_worker in its thread ends: the next step begins, or the
\* function returns or raises, which completes the future unless it was
\* cancelled.  The thread runs on whatever the event loop does.
RunWorkerStep ==
    /\ thread_pc \in RunWorkerSteps
    /\ \/ \E next \in NextSteps(thread_pc) :
             /\ thread_pc' = next
             /\ thread_result' = IF next = "done" THEN Some(WorkerResult)
                                 ELSE thread_result
       \/ \E failure \in StepFailures(thread_pc) :
             /\ thread_pc' = "done"
             /\ thread_result' = Some(failure)
    /\ main_task' = IF thread_pc' = "done" /\ main_task = "pending" THEN "done"
                    ELSE main_task
    /\ UNCHANGED <<main_pc, main_ending, kill, received, metadata, posts,
                   shutdown_pc, exit_status, kill_at, publisher_vars, vcs_vars, blurb_vars, process_vars, watchdog_vars>>

\* WatchdogPetter._connection receives one frame from the server
WatchdogReceive ==
    /\ main_pc # "get_assignment"
    /\ exit_status = NoValue
    /\ Len(received) < MaxFrames
    /\ \E msg \in [type : {"text", "binary"}, data : {"kill", "other"}] :
          LET cancels == is_kill(msg) /\ kill /\ main_task = "pending"
          IN  /\ received' = Append(received, msg)
              /\ main_task' = IF cancels THEN "cancelled" ELSE main_task
              /\ kill_at' = IF cancels THEN Some(thread_pc) ELSE kill_at
    /\ UNCHANGED <<main_pc, main_ending, thread_pc, thread_result, kill, metadata,
                   posts, shutdown_pc, exit_status, publisher_vars, vcs_vars, blurb_vars, process_vars, watchdog_vars>>

\* main() resumes from "await main_task": an except clause or the else clause
\* fills metadata, then the finally block sets finish_time and calls
\* upload_results with the output directory
MainTaskAwaited ==
    /\ main_pc = "await_main_task"
    /\ main_task \in {"done", "cancelled"}
    /\ LET e == main_except(main_task,
                            IF thread_result = NoValue THEN WorkerResult
                            ELSE thread_result[1])
           md == [metadata EXCEPT !.code = e.code, !.description = e.description,
                                  !.finish_time = TRUE]
       IN  /\ metadata' = md
           /\ main_ending' = Some(e.ending)
           /\ posts' = Append(posts, bundle_results("finally", md, TRUE))
    /\ main_pc' = "upload_results"
    /\ UNCHANGED <<main_task, thread_pc, thread_result, kill, received,
                   shutdown_pc, exit_status, kill_at, publisher_vars, vcs_vars, blurb_vars, process_vars, watchdog_vars>>

\* The upload of the finally block is answered and main() ends: sys.exit(1)
\* on ResultUploadFailure, otherwise what the try statement left pending.
\* asyncio.run then cancels the task of handle_sigterm if it is unfinished.
\* A task that is ready to start runs before the loop polls for the answer.
MainUploadAnswered ==
    /\ main_pc = "upload_results"
    /\ shutdown_pc # "created"
    /\ \E status \in Statuses :
          /\ posts' = CancelPost(AnswerPost(posts, "finally", status), "abort_run")
          /\ exit_status' =
                 IF exit_status # NoValue THEN exit_status
                 ELSE IF upload_results(status) = "accepted"
                 THEN Some(ExitStatusOf(main_ending[1]))
                 ELSE Some(1)
    /\ main_pc' = "returned"
    /\ shutdown_pc' = IF shutdown_pc \in {"created", "upload"} THEN "cancelled"
                      ELSE shutdown_pc
    /\ UNCHANGED <<main_ending, main_task, thread_pc, thread_result, kill,
                   received, metadata, kill_at, publisher_vars, vcs_vars, blurb_vars, process_vars, watchdog_vars>>

\* SIGINT or SIGTERM once the handlers are installed: handle_sigterm makes
\* the task shutdown()
handle_sigterm ==
    /\ main_pc \in {"site_start", "await_main_task", "upload_results"}
    /\ exit_status = NoValue
    /\ shutdown_pc = "none"
    /\ shutdown_pc' = "created"
    /\ UNCHANGED <<main_pc, main_ending, main_task, thread_pc, thread_result, kill,
                   received, metadata, posts, exit_status, kill_at, publisher_vars, vcs_vars, blurb_vars, process_vars, watchdog_vars>>

\* shutdown() runs abort_run up to the await in upload_results, which is
\* called without a directory
abort_run ==
    /\ shutdown_pc = "created"
    /\ LET md == [metadata EXCEPT !.code = "aborted",
                                  !.description = "Killed by signal",
                                  !.finish_time = TRUE]
       IN  /\ metadata' = md
           /\ posts' = Append(posts, bundle_results("abort_run", md, FALSE))
    /\ shutdown_pc' = "upload"
    /\ UNCHANGED <<main_pc, main_ending, main_task, thread_pc, thread_result, kill,
                   received, exit_status, kill_at, publisher_vars, vcs_vars, blurb_vars, process_vars, watchdog_vars>>

\* The upload of abort_run is answered.  ResultUploadFailure is logged and
\* sys.exit(1) follows as after an accepted upload; any other exception ends
\* the task without it.  SystemExit leaves the event loop, and asyncio.run
\* cancels main() where it is: at "await main_task" it goes on into its
\* except and finally clauses, elsewhere it ends.
shutdown ==
    /\ shutdown_pc = "upload"
    /\ \E status \in Statuses :
          /\ IF upload_results(status) = "error"
             THEN /\ shutdown_pc' = "failed"
                  /\ posts' = AnswerPost(posts, "abort_run", status)
                  /\ UNCHANGED <<exit_status, main_task, main_pc>>
             ELSE /\ shutdown_pc' = "exited"
                  /\ exit_status' = Some(1)
                  /\ main_task' = IF main_pc = "await_main_task" THEN "cancelled"
                                  ELSE main_task
                  /\ main_pc' = IF main_pc = "await_main_task" THEN main_pc
                                ELSE "returned"
                  /\ posts' = CancelPost(AnswerPost(posts, "abort_run", status),
                                         "finally")
    /\ UNCHANGED <<main_ending, thread_pc, thread_result, kill, received,
                   metadata, kill_at, publisher_vars, vcs_vars, blurb_vars, process_vars, watchdog_vars>>

NextWorker ==
    \/ GetAssignment
    \/ StartMainTask
    \/ RunWorkerStep
    \/ WatchdogReceive
    \/ MainTaskAwaited
    \/ MainUploadAnswered
    \/ handle_sigterm
    \/ abort_run
    \/ shutdown

\* The worker alone: the publisher's variables are those of an idle daemon
InitWorker ==
    /\ InitLimiter
    /\ max_mps_per_maintainer = MaxCap

SpecWorker == InitWorker /\ [][NextWorker]_vars


\* ------------------------------------------------------------ worker claims
Exited == exit_status # NoValue

\* The order of the steps of one run: the thread begins with the workspace
\* once the assignment is fetched and moves only to a later step
StepOrder ==
    /\ (thread_pc = "idle" /\ thread_pc' # "idle") =>
           (main_pc = "site_start" /\ thread_pc' = "workspace")
    /\ (thread_pc \in RunWorkerSteps /\ thread_pc' # thread_pc) =>
           thread_pc' \in NextSteps(thread_pc) \cup {"done"}
    /\ thread_pc = "done" => thread_pc' = "done"

\* C16: the steps of a run occur in the order fetch, workspace, recipe,
\* (build), mirror, upload, and once a result upload has started no workspace,
\* recipe, build or mirror step of the run is executing, also when the run is
\* cancelled by a kill frame or a signal.
C16_StepsInOrderNoneOverlapsUpload ==
    [][StepOrder /\ (posts' # <<>> => thread_pc' \notin RunWorkerSteps)]_vars

\* C17: after a kill frame that arrived while the recipe was running, the
\* main task is cancelled, a result with code aborted and description
\* "Killed by signal" has been uploaded, and the exit status is 1.
C17_KillDuringRecipeIsAborted ==
    (kill_at = Some("recipe") /\ main_pc = "returned") =>
        /\ main_task = "cancelled"
        /\ \E i \in 1..Len(posts) :
              /\ posts[i].code = "aborted"
              /\ posts[i].description = "Killed by signal"
        /\ exit_status = Some(1)

\* The step in which the progress channel receives a frame
ReceivesFrame == Len(received') = Len(received) + 1

ReceivedFrame == received'[Len(received')]

CancelsMainTask == main_task = "pending" /\ main_task' = "cancelled"

\* C18 as claimed: a text frame with content kill, received while the main
\* task is pending and the kill callback is set, cancels the main task.
C18_TextKillCancelsMainTask ==
    [][(ReceivesFrame /\ ReceivedFrame = [type |-> "text", data |-> "kill"]
           /\ kill /\ main_task = "pending") => CancelsMainTask]_vars

\* C18 amended: a received frame cancels the pending main task exactly when
\* it is a binary frame with content kill and the kill callback is set; every
\* other frame, a text frame kill included, leaves the main task as it is.
C18_BinaryKillCancelsMainTask ==
    [][ReceivesFrame =>
          (CancelsMainTask <=>
              (ReceivedFrame = [type |-> "binary", data |-> "kill"]
                  /\ kill /\ main_task = "pending"))]_vars

C18_Witness ==
    /\ received # <<>>
    /\ received[Len(received)] = [type |-> "binary", data |-> "kill"]
    /\ main_task = "cancelled"
    /\ kill_at # NoValue

\* C19: when a signal arrived during the run, the process exits non-zero and
\* before it exits abort_run has uploaded, and got answered, a result with
\* code aborted that carries no output files.
C19_SignalAbortsAndExitsNonZero ==
    (shutdown_pc # "none" /\ Exited /\ main_pc = "returned") =>
        /\ exit_status # Some(0)
        /\ \E i \in 1..Len(posts) :
              /\ posts[i].by = "abort_run"
              /\ posts[i].code = "aborted"
              /\ ~posts[i].files
              /\ posts[i].response \in {"accepted", "rejected"}

\* The run ended with a coded failure: run_worker raised WorkerFailure, main
\* received it from the main task, and no signal aborted the run
EndedWithWorkerFailure ==
    /\ main_task = "done"
    /\ thread_result # NoValue
    /\ thread_result[1].kind = "WorkerFailure"
    /\ shutdown_pc = "none"

\* C20: when the run ends with a WorkerFailure, the result uploaded by main
\* carries the failure's code and description, and if that upload is accepted
\* the exit status is 0.
C20_CodedFailureUploadedExitZero ==
    EndedWithWorkerFailure =>
        \A i \in 1..Len(posts) :
            /\ posts[i].by = "finally"
            /\ posts[i].code = thread_result[1].code
            /\ posts[i].description = thread_result[1].description
            /\ (posts[i].response = "accepted" => exit_status = Some(0))

C20_Witness ==
    /\ EndedWithWorkerFailure
    /\ main_pc = "returned"
    /\ posts # <<>>
    /\ posts[1].code = "build-failed"
    /\ posts[1].response = "accepted"
    /\ exit_status = Some(0)


\* main has left "await main_task" with an exception that is not WorkerFailure
UncodedException ==
    /\ main_ending # NoValue
    /\ \/ main_task = "cancelled"
       \/ /\ main_task = "done"
          /\ thread_result[1].kind \in {"OSError", "Exception"}

\* The result the finally block of main has posted carries the code
FinallyPostHasCode(code) ==
    \E i \in 1..Len(posts) : posts[i].by = "finally" /\ posts[i].code = code

\* C21 as claimed: every exception on the main task that is not a coded
\* failure is uploaded with code worker-failure and is re-raised after the
\* finally block: main ends by raising, with exit status 1.
C21_UncodedIsWorkerFailureAndRaised ==
    UncodedException =>
        /\ FinallyPostHasCode("worker-failure")
        /\ main_ending = Some("raise")
        /\ (main_pc = "returned" => exit_status = Some(1))

IsOSError == main_task = "done" /\ thread_result[1].kind = "OSError"

\* C21 amended: an exception that is neither WorkerFailure nor OSError (a
\* cancellation included) is uploaded as worker-failure and re-raised; an
\* OSError other than ENOSPC is uploaded as worker-exception and re-raised;
\* ENOSPC is uploaded as no-space-on-device and is not re-raised.
C21_UncodedIsTaggedByKind ==
    UncodedException =>
        IF IsOSError /\ thread_result[1].code = "ENOSPC"
        THEN /\ FinallyPostHasCode("no-space-on-device")
             /\ main_ending = Some("fall through")
        ELSE /\ FinallyPostHasCode(IF IsOSError THEN "worker-exception"
                                   ELSE "worker-failure")
             /\ main_ending = Some("raise")
             /\ (main_pc = "returned" => exit_status = Some(1))

C21_Witness ==
    /\ UncodedException
    /\ main_task = "done"
    /\ thread_result[1].kind = "Exception"
    /\ FinallyPostHasCode("worker-failure")
    /\ main_pc = "returned"
    /\ exit_status = Some(1)

\* The step in which main leaves "await main_task", however the main task ended
MainTaskEnds == main_pc = "await_main_task" /\ main_pc' # "await_main_task"

\* C22: once the main task has been started, every way it ends (result, coded
\* failure, uncoded exception, cancellation) takes main into the finally block,
\* which sets finish_time and posts the result with the output files.
C22_EveryEndingUploadsFromFinally ==
    [][MainTaskEnds =>
          /\ main_pc' = "upload_results"
          /\ Len(posts') = Len(posts) + 1
          /\ posts'[Len(posts')].by = "finally"
          /\ posts'[Len(posts')].finish_time
          /\ posts'[Len(posts')].files
          /\ metadata'.finish_time]_vars

C22_Witness ==
    /\ main_task = "cancelled"
    /\ main_pc = "upload_results"
    /\ \E i \in 1..Len(posts) : posts[i].by = "finally" /\ posts[i].finish_time

\* C23: an upload answered with 404, or with any status other than 200 and
\* 201, raises ResultUploadFailure and the exit status is not 0, also when the
\* run succeeded or ended in a coded failure.
C23_RejectedUploadExitsNonZero ==
    \A i \in 1..Len(posts) :
        posts[i].status \in {"404", "500"} =>
            /\ posts[i].response = "rejected"
            /\ exit_status # NoValue
            /\ exit_status # Some(0)

C23_Witness ==
    /\ main_task = "done"
    /\ thread_result[1].kind \in {"result", "WorkerFailure"}
    /\ main_ending = Some("return 0")
    /\ shutdown_pc = "none"
    /\ \E i \in 1..Len(posts) : posts[i].by = "finally" /\ posts[i].status = "500"
    /\ exit_status = Some(1)


\* ------------------------------------------------------------------------
\* The blurb functions on their own: one description is given to
\* add_janitor_blurb and the result to strip_janitor_blurb (publish.py
\* 127-142), for every short text over the pieces below.

MaxTextLen == 3

\* The pieces a given text is made of: a word, a line break and the bodies
\* of the blurbs
TextPieces ==
    {"Fix", "\n", JANITOR_BLURB_BODY("lintian-fixes"),
     JANITOR_BLURB_BODY("fresh-releases"), OLD_JANITOR_BLURB[2]}

Texts == UNION {[1..n -> TextPieces] : n \in 0..MaxTextLen}

\* The publisher before its tasks have started
PublisherNotStarted ==
    /\ policy = [p \in Packages |-> MODE_PROPOSE]
    /\ max_mps_per_maintainer = MaxCap
    /\ push_permitted = TRUE
    /\ branch_fault = [p \in Packages |-> "none"]
    /\ runs = run_table
    /\ publish = <<>>
    /\ queue = {}
    /\ proposals = <<>>
    /\ merge_proposal = EmptyDict
    /\ open_mps_per_maintainer = NoValue
    /\ open_proposal_count = EmptyDict
    /\ merge_proposal_count = EmptyDict
    /\ proposal_rate_limited_count = EmptyDict
    /\ driver = DriverIdle(0)
    /\ handlers = {}
    /\ n_requests = 0
    /\ alive = TRUE
    /\ set_called = FALSE
    /\ inc_calls = [m \in Maintainers |-> 0]
    /\ publish_one_calls = {}
    /\ pass_end = NoValue

InitBlurb ==
    /\ PublisherNotStarted
    /\ WorkerNotStarted
    /\ VcsStoreEmpty
    /\ \E t \in Texts, s \in Suites :
          blurb_text = Some([text |-> t, pkg |-> "pkg-a", log_id |-> "run-1", suite |-> s])
    /\ blurb_added = NoValue
    /\ blurb_stripped = NoValue
    /\ ProcessIdle
    /\ WatchdogIdle

\* text = add_janitor_blurb(t, p, l, s)
AddBlurb ==
    /\ blurb_text # NoValue
    /\ blurb_added = NoValue
    /\ blurb_added' = Some(add_janitor_blurb(blurb_text[1].text, blurb_text[1].pkg,
                                             blurb_text[1].log_id, blurb_text[1].suite))
    /\ UNCHANGED <<blurb_text, blurb_stripped, vcs_vars, process_vars, watchdog_vars, worker_vars, publisher_vars>>

\* strip_janitor_blurb(text, s); the result is kept as Some(returned text), or
\* Some(NoValue) for ValueError
StripBlurb ==
    /\ blurb_added # NoValue
    /\ blurb_stripped = NoValue
    /\ blurb_stripped' = Some(strip_janitor_blurb(blurb_added[1], blurb_text[1].suite))
    /\ UNCHANGED <<blurb_text, blurb_added, vcs_vars, process_vars, watchdog_vars, worker_vars, publisher_vars>>

NextBlurb == AddBlurb \/ StripBlurb

SpecBlurb == InitBlurb /\ [][NextBlurb]_vars

\* text contains the blurb of the suite
ContainsBlurb(text, suite) == Index(text, JANITOR_BLURB(suite)) # 0

\* The round trip has been made for a text that did not contain the blurb
RoundTripDone ==
    /\ blurb_stripped # NoValue
    /\ ~ContainsBlurb(blurb_text[1].text, blurb_text[1].suite)

\* C25 (as claimed): strip_janitor_blurb(add_janitor_blurb(t, p, l, s), s)
\* is t for every text t that does not already contain the blurb of s.
C25_RoundTripIsIdentity ==
    RoundTripDone => blurb_stripped[1] = Some(blurb_text[1].text)

\* C25 (amended): the round trip never raises and returns t without the line
\* breaks at its ends when t followed by a line break does not contain the
\* blurb of s; otherwise it returns the text before the first blurb in t
\* followed by a line break, without the line breaks at its ends.
C25_RoundTripIsStripped ==
    blurb_stripped # NoValue =>
        LET t == blurb_text[1].text
            s == blurb_text[1].suite
            i == Index(t \o <<"\n">>, JANITOR_BLURB(s))
        IN  blurb_stripped[1] =
               IF i = 0 THEN Some(Strip(t)) ELSE Some(Strip(SubSeq(t, 1, i - 1)))

\* C25 witness: the round trip made for a text without the blurb that ends
\* in a line break, which comes back without it
C25_Witness ==
    /\ RoundTripDone
    /\ blurb_text[1].text # <<>>
    /\ blurb_text[1].text[Len(blurb_text[1].text)] = "\n"
    /\ blurb_stripped[1] = Some(Strip(blurb_text[1].text))
    /\ Strip(blurb_text[1].text) # <<>>


\* ------------------------------------------------------------------------
\* The VCS store on disk (vcs.py): LocalVcsManager.import_branches mirrors
\* the branches of a run into it and LocalVcsManager.get_branch opens one.

MaxImports == 2

SUPPORTED_VCSES == <<"git", "bzr">>

\* The names a result branch is imported under, besides 'master'
BranchNames == {"lintian-fixes", "new-upstream"}

\* Revisions: rev-1 is the parent of rev-2, rev-3 has no relation to either
Revisions == {"rev-1", "rev-2", "rev-3"}
NULL_REVISION == "null:"
Ancestors(rev) == IF rev = "rev-2" THEN {"rev-1", "rev-2"} ELSE {rev}

\* A branch given to import_branches: the vcs of its repository, its tip and
\* whether its repository holds every revision of its history
SourceBranches == [vcs : {"git", "bzr"}, tip : Revisions, complete : BOOLEAN]

\* Branch.push(target, overwrite): the tip of the target afterwards, or the
\* exception raised
push(from_branch, target_tip, overwrite) ==
    IF ~from_branch.complete THEN "NoSuchRevision"
    ELSE IF overwrite \/ target_tip = NULL_REVISION
            \/ target_tip \in Ancestors(from_branch.tip)
    THEN from_branch.tip
    ELSE "DivergedBranches"

\* The branch of that vcs, package and name in the store, if there is one
StoredBranch(store, vcs, pkg, name) ==
    {b \in store : b.vcs = vcs /\ b.pkg = pkg /\ b.name = name}

\* The store after the target branch was opened or created and given a tip
WithTip(store, vcs, pkg, name, tip) ==
    (store \ StoredBranch(store, vcs, pkg, name))
        \cup {[vcs |-> vcs, pkg |-> pkg, name |-> name, tip |-> tip]}

\* The tip of the target branch: open_branch, or create_branch on NotBranchError
TargetTip(store, vcs, pkg, name) ==
    IF StoredBranch(store, vcs, pkg, name) = {} THEN NULL_REVISION
    ELSE (CHOOSE b \in StoredBranch(store, vcs, pkg, name) : TRUE).tip

\* The loop of mirror_branches over the branch map: every pair is pushed with
\* overwrite=True until one raises NoSuchRevision (MirrorFailure)
RECURSIVE mirror_loop(_, _, _, _, _)
mirror_loop(store, pushed, vcs, pkg, branch_map) ==
    IF branch_map = <<>>
    THEN [store |-> store, pushed |-> pushed, raised |-> None]
    ELSE LET target_branch_name == Head(branch_map)[1]
             from_branch == Head(branch_map)[2]
             target_tip == TargetTip(store, vcs, pkg, target_branch_name)
             tip == push(from_branch, target_tip, TRUE)
         IN  IF tip = "NoSuchRevision"
             THEN [store |-> WithTip(store, vcs, pkg, target_branch_name, target_tip),
                   pushed |-> pushed, raised |-> "MirrorFailure"]
             ELSE mirror_loop(WithTip(store, vcs, pkg, target_branch_name, tip),
                              Append(pushed, [pkg |-> pkg, name |-> target_branch_name,
                                              tip |-> tip]),
                              vcs, pkg, Tail(branch_map))

\* mirror_branches
mirror_branches(store, pkg, branch_map) ==
    LET vcses == {branch_map[i][2].vcs : i \in 1..Len(branch_map)}
    IN  IF vcses = {} THEN [store |-> store, pushed |-> <<>>, raised |-> None]
        ELSE IF Cardinality(vcses) > 1
        THEN [store |-> store, pushed |-> <<>>, raised |-> "AssertionError"]
        ELSE mirror_loop(store, <<>>, CHOOSE vcs \in vcses : TRUE, pkg, branch_map)

\* copy_vcs_dir, without additional colocated branches
copy_vcs_dir(store, main_branch, local_branch, pkg, name) ==
    mirror_branches(store, pkg, << <<name, local_branch>>, <<"master", main_branch>> >>)

\* The number of parameters of get_local_vcs_branch
get_local_vcs_branch_params == 3

\* get_local_vcs_branch: the first supported vcs that has a directory for the
\* package; None when there is none; open_branch raises BranchMissing when
\* the directory holds no branch of that name
get_local_vcs_branch(store, pkg, branch_name) ==
    LET exists(vcs) == \E b \in store : b.vcs = vcs /\ b.pkg = pkg
    IN  IF ~\E i \in 1..Len(SUPPORTED_VCSES) : exists(SUPPORTED_VCSES[i])
        THEN None
        ELSE LET vcs == SUPPORTED_VCSES[CHOOSE i \in 1..Len(SUPPORTED_VCSES) :
                            /\ exists(SUPPORTED_VCSES[i])
                            /\ \A j \in 1..(i - 1) : ~exists(SUPPORTED_VCSES[j])]
             IN  IF StoredBranch(store, vcs, pkg, branch_name) = {}
                 THEN "BranchMissing"
                 ELSE TargetTip(store, vcs, pkg, branch_name)

\* A variant of LocalVcsManager.get_branch that gives get_local_vcs_branch the
\* three arguments it takes
LocalVcsManager_get_branch_three_arguments(store, package, branch_name, vcs_type) ==
    LET branch == get_local_vcs_branch(store, package, branch_name)
    IN  IF branch \in {"BranchUnavailable", "BranchMissing"} THEN None ELSE branch

\* LocalVcsManager.get_branch: it calls get_local_vcs_branch with four
\* arguments (base_path, package, branch_name, vcs_type), which raises
\* TypeError before the function runs; only BranchUnavailable and
\* BranchMissing are caught
LocalVcsManager_get_branch(store, package, branch_name, vcs_type) ==
    LET arguments == <<"self.base_path", package, branch_name, vcs_type>>
    IN  IF Len(arguments) # get_local_vcs_branch_params
        THEN "TypeError"
        ELSE LET branch == get_local_vcs_branch(store, package, branch_name)
             IN  IF branch \in {"BranchUnavailable", "BranchMissing"}
                 THEN None ELSE branch

\* The tips last pushed, after the pushes of one more call
RECURSIVE RecordPushes(_, _)
RecordPushes(last, pushed) ==
    IF pushed = <<>> THEN last
    ELSE RecordPushes({p \in last : ~(p.pkg = Head(pushed).pkg /\ p.name = Head(pushed).name)}
                          \cup {Head(pushed)},
                      Tail(pushed))

InitVcs ==
    /\ PublisherNotStarted
    /\ WorkerNotStarted
    /\ BlurbIdle
    /\ ProcessIdle
    /\ WatchdogIdle
    /\ VcsStoreEmpty

\* LocalVcsManager.import_branches(main_branch, local_branch, pkg, name)
ImportBranches ==
    /\ Len(imports) < MaxImports
    /\ \E pkg \in Packages, name \in BranchNames, main_branch, local_branch \in SourceBranches :
          /\ main_branch.vcs = local_branch.vcs
          /\ main_branch.tip = "rev-1"
          /\ main_branch.complete
          /\ LET r == copy_vcs_dir(vcs_store, main_branch, local_branch, pkg, name)
             IN  /\ vcs_store' = r.store
                 /\ last_pushed' = RecordPushes(last_pushed, r.pushed)
                 /\ imports' = Append(imports, [pkg |-> pkg, name |-> name,
                                                raised |-> r.raised])
    /\ UNCHANGED <<opened, result_branch, vcs_type_found, blurb_vars, process_vars, watchdog_vars, worker_vars, publisher_vars>>

\* LocalVcsManager.get_branch(package, branch_name)
GetBranch ==
    /\ \E package \in Packages, branch_name \in BranchNames \cup {"master"} :
          opened' = Some([pkg |-> package, name |-> branch_name,
                          result |-> LocalVcsManager_get_branch(vcs_store, package,
                                                                branch_name, None)])
    /\ UNCHANGED <<vcs_store, imports, last_pushed, result_branch, vcs_type_found, blurb_vars, process_vars, watchdog_vars,
                   worker_vars, publisher_vars>>

\* A variant of publish_one_result_branch whose manager gives
\* get_local_vcs_branch the three arguments it takes
publish_one_result_branch_three_arguments(store, pkg, branch_name) ==
    LET local_branch ==
            LocalVcsManager_get_branch_three_arguments(store, pkg, branch_name, None)
    IN  IF local_branch = None THEN "result-branch-not-found"
        ELSE "local branch opened"

\* The first lines of publish_one on the manager main() makes
\* (LocalVcsManager): get_branch, then PublishFailure result-branch-not-found
\* when it returned None; an exception of get_branch leaves publish_one
publish_one_result_branch(store, pkg, branch_name) ==
    LET local_branch == LocalVcsManager_get_branch(store, pkg, branch_name, None)
    IN  IF local_branch = "TypeError" THEN "TypeError"
        ELSE IF local_branch = None THEN "result-branch-not-found"
        ELSE "local branch opened"

\* publish_one(suite, pkg, ..., vcs_manager, branch_name) up to the opening of
\* the main branch
PublishOneResultBranch ==
    /\ \E pkg \in Packages, branch_name \in BranchNames :
          result_branch' = Some([pkg |-> pkg, name |-> branch_name,
                                 stored |-> {b \in vcs_store : b.pkg = pkg
                                                               /\ b.name = branch_name},
                                 outcome |-> publish_one_result_branch(vcs_store, pkg,
                                                                       branch_name)])
    /\ UNCHANGED <<vcs_store, imports, last_pushed, opened, vcs_type_found, blurb_vars, process_vars, watchdog_vars,
                   worker_vars, publisher_vars>>

\* get_vcs_abbreviation(repository): the abbreviation of the repository's vcs
\* attribute, 'bzr' when it has none (as None has none)
get_vcs_abbreviation(repository) ==
    IF repository = None THEN "bzr"
    ELSE IF repository = "git" THEN "git"
    ELSE "bzr"

\* get_local_vcs_repo(vcs_directory, package): the repository of the first
\* supported vcs that has a directory for the package, None when none has
get_local_vcs_repo(store, package) ==
    LET exists(vcs) == \E b \in store : b.vcs = vcs /\ b.pkg = package
    IN  IF ~\E i \in 1..Len(SUPPORTED_VCSES) : exists(SUPPORTED_VCSES[i])
        THEN None
        ELSE SUPPORTED_VCSES[CHOOSE i \in 1..Len(SUPPORTED_VCSES) :
                 /\ exists(SUPPORTED_VCSES[i])
                 /\ \A j \in 1..(i - 1) : ~exists(SUPPORTED_VCSES[j])]

\* A variant of get_vcs_type that returns None for no repository
get_vcs_type_none_without_repository(store, package) ==
    IF get_local_vcs_repo(store, package) = None THEN None
    ELSE get_vcs_abbreviation(get_local_vcs_repo(store, package))

\* VcsManager.get_vcs_type on LocalVcsManager: get_repository raises no
\* NotBranchError for a package without a directory, it returns None
get_vcs_type(store, package) ==
    get_vcs_abbreviation(get_local_vcs_repo(store, package))

\* LocalVcsManager.get_vcs_type(package)
GetVcsType ==
    /\ \E package \in Packages :
          vcs_type_found' = Some([pkg |-> package,
                                  stored |-> {b.vcs : b \in {c \in vcs_store : c.pkg = package}},
                                  result |-> get_vcs_type(vcs_store, package)])
    /\ UNCHANGED <<vcs_store, imports, last_pushed, opened, result_branch, blurb_vars, process_vars, watchdog_vars,
                   worker_vars, publisher_vars>>

NextVcs == ImportBranches \/ GetBranch \/ PublishOneResultBranch \/ GetVcsType

SpecVcs == InitVcs /\ [][NextVcs]_vars

\* The name opened last was pushed for that package
OpenedPushedName ==
    /\ opened # NoValue
    /\ \E p \in last_pushed : p.pkg = opened[1].pkg /\ p.name = opened[1].name

\* C24: after import_branches has pushed branches for a package, opening a
\* pushed name of that package returns a branch whose tip is the tip last
\* pushed under that name.
C24_OpenReturnsLastPushedTip ==
    OpenedPushedName =>
        \E p \in last_pushed :
            /\ p.pkg = opened[1].pkg
            /\ p.name = opened[1].name
            /\ opened[1].result = p.tip


\* ------------------------------------------------------------------------
\* The publisher with runs whose recipe does or does not allow a new
\* proposal: every package's policy is propose.

\* The worker results of a lintian-brush run: fixers applied, none applied,
\* and fixers applied on top of other changes only
RecipeResults ==
    {[applied |-> 1, add_on_only |-> FALSE],
     [applied |-> 0, add_on_only |-> FALSE],
     [applied |-> 1, add_on_only |-> TRUE]}

RecipeRunTables ==
    {[i \in 1..Len(run_table) |-> [run_table[i] EXCEPT !.result = r]] : r \in RecipeResults}

InitRecipe ==
    /\ policy = [p \in Packages |-> MODE_PROPOSE]
    /\ max_mps_per_maintainer \in 0..MaxCap
    /\ push_permitted = TRUE
    /\ branch_fault = [p \in Packages |-> "none"]
    /\ runs \in RecipeRunTables
    /\ publish = <<>>
    /\ queue = {}
    /\ \E h \in InitialHosterStates :
          /\ proposals = h.proposals
          /\ merge_proposal = h.merge_proposal
    /\ open_mps_per_maintainer = NoValue
    /\ open_proposal_count = EmptyDict
    /\ merge_proposal_count = EmptyDict
    /\ proposal_rate_limited_count = EmptyDict
    /\ driver = DriverIdle(0)
    /\ handlers = {}
    /\ n_requests = 0
    /\ alive = TRUE
    /\ set_called = FALSE
    /\ inc_calls = [m \in Maintainers |-> 0]
    /\ publish_one_calls = {}
    /\ pass_end = NoValue
    /\ WorkerNotStarted
    /\ VcsStoreEmpty
    /\ BlurbIdle
    /\ ProcessIdle
    /\ WatchdogIdle

SpecRecipe == InitRecipe /\ [][Next]_vars

\* The recipe of the run a proposal was made from allows a new proposal
RecipeAllows(proposal) ==
    \E k \in 1..Len(runs) :
        /\ runs[k].package = proposal.package
        /\ runs[k].revision = proposal.revision
        /\ subrunner_allow_create_proposal(runs[k].result)

\* The proposals a step opens on the hoster
Opened(i) == i \in (Len(proposals) + 1)..Len(proposals')

LatestRunCode(url) ==
    LET previous == iter_previous_runs(proposals[url].package, proposals[url].branch_name)
    IN  IF previous = <<>> THEN None ELSE Head(previous).result_code

\* The result codes after which the spec lets a pass touch the proposal
HarmlessCodes == {"success", "nothing-to-do", "nothing-new-to-do"}

\* C27: the visit of an open proposal whose package and campaign's most
\* recent run has a result code outside {success, nothing-to-do,
\* nothing-new-to-do} calls publish_one for no run, stores no Publication and
\* leaves every proposal as it was.
C27_FailedLatestRunLeavesProposalAlone ==
    [][\A url \in 1..Len(proposals) :
          (/\ ReconcileVisit(url)
           /\ Head(driver.todo)[2] = "open"
           /\ LatestRunCode(url) \notin HarmlessCodes \cup {None})
          => /\ publish_one_calls' = publish_one_calls
             /\ publish' = publish
             /\ proposals' = proposals]_vars

\* C27 witness: a pass is over in which pkg-b's open proposal, made from run-0
\* and followed by the successful run-3 and the failed run-4, was visited and
\* left alone
C27_Witness ==
    /\ driver.pc = "sleep"
    /\ \E k \in 1..Len(runs) : runs[k].id = "run-4" /\ runs[k].result_code = "build-failed"
    /\ \E url \in 1..Len(proposals) :
          /\ proposals[url].package = "pkg-b"
          /\ proposals[url].status = "open"
          /\ proposals[url].revision = "D0"
          /\ url \in DOMAIN merge_proposal
          /\ merge_proposal[url].revision = "D0"
    /\ \A j \in 1..Len(publish) : publish[j].package # "pkg-b"


\* The successful runs of the proposal's package and campaign that are newer
\* than the run the proposal was last updated from, newest first
NewerSuccessfulRuns(url) ==
    LET mp_run == get_merge_proposal_run(
                      set_proposal_status(merge_proposal, url, "open"), url)
    IN  IF mp_run = NoValue THEN <<>>
        ELSE SelectSeq(RunsBefore(iter_previous_runs(mp_run[1].package, mp_run[1].suite),
                                  mp_run[1]),
                       LAMBDA r : r.result_code = "success")

\* C28: the visit of an open proposal whose package and campaign's most
\* recent run has a code in {success, nothing-to-do, nothing-new-to-do}, and
\* for which a successful run newer than the proposal's own exists, calls
\* publish_one in mode propose, and what it publishes is the newest such run.
C28_NewerSuccessIsPublished ==
    [][\A url \in 1..Len(proposals) :
          (/\ ReconcileVisit(url)
           /\ Head(driver.todo)[2] = "open"
           /\ LatestRunCode(url) \in HarmlessCodes
           /\ NewerSuccessfulRuns(url) # <<>>)
          => /\ \E c \in publish_one_calls' :
                   /\ c.by = "check_existing"
                   /\ c.package = proposals[url].package
                   /\ c.mode = MODE_PROPOSE
             /\ Len(publish') <= Len(publish) + 1
             /\ Len(publish') = Len(publish) + 1
                   => publish'[Len(publish')].revision
                          = Head(NewerSuccessfulRuns(url)).revision]_vars


\* C29: no step of the reconciler, and no publication it makes, closes a
\* proposal: a proposal that is not closed is not closed after the step, also
\* when newer runs exist that all found nothing to do.
C29_NothingClosesAProposal ==
    [][\A url \in 1..Len(proposals) :
          proposals[url].status # "closed" => proposals'[url].status # "closed"]_vars

\* C29 witness: a pass is over that visited pkg-b's open proposal, made from
\* the run before the latest, whose latest run found nothing to do; the
\* proposal is still open
C29_Witness ==
    /\ driver.pc = "sleep"
    /\ \E k \in 1..Len(runs) : runs[k].id = "run-4" /\ runs[k].result_code = "nothing-to-do"
    /\ \E url \in 1..Len(proposals) :
          /\ proposals[url].package = "pkg-b"
          /\ proposals[url].status = "open"
          /\ url \in DOMAIN merge_proposal
          /\ merge_proposal[url].revision = "D1"
          /\ NewerSuccessfulRuns(url) = <<>>


\* ------------------------------------------------------------------------
\* Publication rows and publish_one calls

\* The driver loop has called publish_one for the package and is about to
\* store the row
RowPending(c) ==
    /\ c.by = "publish_pending"
    /\ driver.pc = "pp_store"
    /\ driver.row # NoValue
    /\ driver.row[1].package = c.package

\* C30: every publish_one call that was started, by the driver loop, the
\* reconciler or the on-demand endpoint, has a Publication row of its caller
\* for its package and mode, once the caller is past its store_publish.
C30_EveryCallStoresARow ==
    \A c \in publish_one_calls :
        ~RowPending(c)
        => \E j \in 1..Len(publish) :
              /\ publish[j].by = c.by
              /\ publish[j].package = c.package
              /\ publish[j].mode = c.mode


\* ------------------------------------------------------------------------
\* publish_one and the result branch in the VCS store

\* C31: publish_one fails with code result-branch-not-found, before it opens
\* the main branch, whenever the VCS store holds no result branch for the
\* package and branch name it is given.
C31_MissingResultBranchIsNotFound ==
    (result_branch # NoValue /\ result_branch[1].stored = {})
        => result_branch[1].outcome = "result-branch-not-found"

\* ------------------------------------------------------------------------
\* get_vcs_type

\* C38: get_vcs_type returns None for a package that has no repository in
\* the store, and otherwise the vcs of a repository the store has for it.
C38_VcsTypeOfProbedRepository ==
    vcs_type_found # NoValue
        => IF vcs_type_found[1].stored = {}
           THEN vcs_type_found[1].result = None
           ELSE vcs_type_found[1].result \in vcs_type_found[1].stored


\* ------------------------------------------------------------------------
\* The daemon for packages whose main branch no hoster supports

InitUnsupported ==
    /\ policy \in [Packages -> SUPPORTED_MODES]
    /\ max_mps_per_maintainer \in 1..MaxCap
    /\ push_permitted \in BOOLEAN
    /\ branch_fault = [p \in Packages |-> "unsupported-hoster"]
    /\ runs = run_table
    /\ publish = <<>>
    /\ queue = {}
    /\ \E h \in InitialHosterStates :
          /\ proposals = h.proposals
          /\ merge_proposal = h.merge_proposal
    /\ open_mps_per_maintainer = NoValue
    /\ open_proposal_count = EmptyDict
    /\ merge_proposal_count = EmptyDict
    /\ proposal_rate_limited_count = EmptyDict
    /\ driver = DriverIdle(0)
    /\ handlers = {}
    /\ n_requests = 0
    /\ alive = TRUE
    /\ set_called = FALSE
    /\ inc_calls = [m \in Maintainers |-> 0]
    /\ publish_one_calls = {}
    /\ pass_end = NoValue
    /\ WorkerNotStarted
    /\ VcsStoreEmpty
    /\ BlurbIdle
    /\ ProcessIdle
    /\ WatchdogIdle

SpecUnsupported == InitUnsupported /\ [][Next]_vars

\* C32: when no hoster supports the main branch, a publish_one call of the
\* driver loop fails with hoster-unsupported in the modes push-derived,
\* propose and attempt-push; in mode push it does not fail there and goes on
\* to the push primitive, whose outcome (success or permission-denied) is the
\* row's code.
C32_UnsupportedHosterFailsExceptForPush ==
    [][(alive /\ driver.pc = "pp_loop")
       => /\ alive'
          /\ driver'.pc = "pp_store"
                => /\ driver'.row[1].mode \in {MODE_PUSH_DERIVED, MODE_PROPOSE,
                                               MODE_ATTEMPT_PUSH}
                         => driver'.row[1].code = "hoster-unsupported"
                   /\ driver'.row[1].mode = MODE_PUSH
                         => driver'.row[1].code \in {"success", "permission-denied"}]_vars


\* ---------------------------------------------------------------------
\* process_package (worker.py): the recipe, the decision to build, and the
\* mirroring run_worker does with what process_package yields
\* ---------------------------------------------------------------------

\* The longest list of branches a recipe result carries
MaxBranches == 2

\* The roles of the branches of a ChangerResult, which are strings
Roles == {"main", "upstream"}

RoleLists == UNION {[1..n -> Roles] : n \in 0..MaxBranches}

\* What make_changes does: raise WorkerFailure with a code, or return a
\* ChangerResult whose branches are None (NoValue) or a list of roles
RecipeOutcomes ==
    {[raises |-> c, branches |-> NoValue] : c \in {"nothing-to-do", "command-failed"}}
    \cup {[raises |-> "none", branches |-> b] : b \in {NoValue} \cup {Some(l) : l \in RoleLists}}

\* The ChangerResult made for a forced build of an unchanged tree
NoChangeBuild == [raises |-> "none", branches |-> Some(<<>>)]

\* not changer_result.branches
no_branches(changer_result) ==
    changer_result.branches = NoValue \/ changer_result.branches[1] = <<>>

\* A variant of should_build that looks at the first branch only
should_build_first_branch(force, changer_result) ==
    \/ force
    \/ changer_result.branches[1][1] \in {None, "main"}

\* should_build, for a result that has branches or a forced build
should_build(force, changer_result) ==
    \/ force
    \/ \E i \in 1..Len(changer_result.branches[1]) : changer_result.branches[1][i] \in {None, "main"}

\* A variant of the handler of nothing-to-do that ignores the resume metadata
nothing_to_do_ignoring_resume(resume_result, force) ==
    IF force THEN "build" ELSE "nothing-to-do"

\* What the handler of WorkerFailure does with the code nothing-to-do: raise
\* nothing-new-to-do, go on with an empty result ("build"), or re-raise
nothing_to_do(resume_result, force) ==
    IF resume_result # None THEN "nothing-new-to-do"
    ELSE IF force THEN "build" ELSE "nothing-to-do"

\* with Workspace(...) as ws: the resume metadata is dropped when the resume
\* branch is not used
EnterWorkspace ==
    /\ process_pc = "workspace"
    /\ resume_subworker_result' = IF resume_branch = None THEN None ELSE resume_subworker_result
    /\ process_pc' = "recipe"
    /\ UNCHANGED <<force_build, resume_branch, recipe, process_steps, process_code>>
    /\ UNCHANGED <<watchdog_vars, blurb_vars, vcs_vars, worker_vars, publisher_vars>>

\* The end of MakeChanges for the result the recipe left behind
decide_build(changer_result) ==
    IF ~force_build /\ no_branches(changer_result)
    THEN /\ process_code' = Some("nothing-to-do")
         /\ process_pc' = "failed"
    ELSE /\ process_code' = process_code
         /\ process_pc' = IF should_build(force_build, changer_result) THEN "build" ELSE "yield"

\* make_changes and what follows it up to the decision to build
MakeChanges ==
    /\ process_pc = "recipe"
    /\ process_steps' = Append(process_steps, "recipe")
    /\ IF recipe[1].raises = "nothing-to-do"
       THEN IF nothing_to_do(resume_subworker_result, force_build) = "build"
            THEN decide_build(NoChangeBuild)
            ELSE /\ process_code' = Some(nothing_to_do(resume_subworker_result, force_build))
                 /\ process_pc' = "failed"
       ELSE IF recipe[1].raises # "none"
            THEN /\ process_code' = Some(recipe[1].raises)
                 /\ process_pc' = "failed"
            ELSE decide_build(recipe[1])
    /\ UNCHANGED <<force_build, resume_subworker_result, resume_branch, recipe>>
    /\ UNCHANGED <<watchdog_vars, blurb_vars, vcs_vars, worker_vars, publisher_vars>>

\* build_target.build, which may raise a WorkerFailure of its own
Build ==
    /\ process_pc = "build"
    /\ process_steps' = Append(process_steps, "build")
    /\ \E ok \in BOOLEAN :
          IF ok
          THEN process_pc' = "yield" /\ process_code' = process_code
          ELSE process_pc' = "failed" /\ process_code' = Some("build-failed")
    /\ UNCHANGED <<force_build, resume_subworker_result, resume_branch, recipe>>
    /\ UNCHANGED <<watchdog_vars, blurb_vars, vcs_vars, worker_vars, publisher_vars>>

\* yield ws, wr: run_worker mirrors the branches with import_branches
Mirror ==
    /\ process_pc = "yield"
    /\ process_steps' = Append(process_steps, "mirror")
    /\ process_pc' = "done"
    /\ UNCHANGED <<force_build, resume_subworker_result, resume_branch, recipe, process_code>>
    /\ UNCHANGED <<watchdog_vars, blurb_vars, vcs_vars, worker_vars, publisher_vars>>

NextProcess == EnterWorkspace \/ MakeChanges \/ Build \/ Mirror

InitProcess ==
    /\ PublisherNotStarted
    /\ WorkerNotStarted
    /\ VcsStoreEmpty
    /\ BlurbIdle
    /\ WatchdogIdle
    /\ force_build \in BOOLEAN
    /\ resume_subworker_result \in {None, "supplied"}
    /\ resume_branch \in {None, "resume"}
    /\ recipe \in {Some(r) : r \in RecipeOutcomes}
    /\ process_pc = "workspace"
    /\ process_steps = <<>>
    /\ process_code = NoValue

SpecProcess == InitProcess /\ [][NextProcess]_vars

\* The step named has been taken
ProcessDid(step) == \E i \in 1..Len(process_steps) : process_steps[i] = step

\* process_package has ended, by raising or with the mirroring done
ProcessEnded == process_pc \in {"failed", "done"}

\* C33: when the recipe reports nothing-to-do, a run that resumes (resume
\* metadata supplied and the resume branch used) fails with nothing-new-to-do;
\* otherwise with force-build the build runs on an empty result; otherwise the
\* run fails with nothing-to-do and neither builds nor mirrors
C33_NothingToDoFromTheRecipe ==
    (ProcessEnded /\ recipe[1].raises = "nothing-to-do")
       => IF resume_subworker_result # None /\ resume_branch # None
          THEN /\ process_code = Some("nothing-new-to-do")
               /\ ~ProcessDid("build") /\ ~ProcessDid("mirror")
          ELSE IF force_build
               THEN /\ ProcessDid("build")
                    /\ process_code \in {NoValue, Some("build-failed")}
               ELSE /\ process_code = Some("nothing-to-do")
                    /\ ~ProcessDid("build") /\ ~ProcessDid("mirror")

\* A resumed run whose recipe had nothing to do has failed with nothing-new-to-do
C33_Witness ==
    /\ ProcessEnded
    /\ recipe[1].raises = "nothing-to-do"
    /\ resume_subworker_result # None
    /\ force_build
    /\ process_code = Some("nothing-new-to-do")

\* A forced build ran on the empty result made for a recipe with nothing to do
C33_WitnessForced ==
    /\ process_pc = "done"
    /\ recipe[1].raises = "nothing-to-do"
    /\ process_steps = <<"recipe", "build", "mirror">>


C34_WitnessUnbuilt ==
    /\ process_pc = "done"
    /\ ~force_build
    /\ recipe[1].raises = "none"
    /\ recipe[1].branches = Some(<<"upstream">>)
    /\ process_steps = <<"recipe", "mirror">>

\* Without force-build a result with no branches failed with nothing-to-do
C34_WitnessNoBranches ==
    /\ process_pc = "failed"
    /\ ~force_build
    /\ recipe[1].raises = "none"
    /\ recipe[1].branches = Some(<<>>)
    /\ process_steps = <<"recipe">>
    /\ process_code = Some("nothing-to-do")


\* ---------------------------------------------------------------------
\* WatchdogPetter (worker.py): the progress channel of one run, with the
\* tasks _connection, _send_keepalives and _forward_logs on one event loop.
\* Time is counted in units of ten seconds, the period of _send_keepalives.
\* ---------------------------------------------------------------------

\* The last instant the model looks at, in units of ten seconds
MaxTicks == 8

\* The number of log fragments _forward_logs reads
MaxFragments == 3

\* How often the server drops or closes the socket
MaxDrops == 2

\* total_seconds() > 60, in units of ten seconds
KeepaliveAfter == 6

\* The frame a send_bytes puts on the wire, with the instant it is sent
Frame(kind, data) == [kind |-> kind, data |-> data, at |-> now]

\* ws.send_bytes on a socket the server has dropped either raises or writes
\* into the void; on an open socket the server receives the frame
SendOutcomes == IF ws = "dead" THEN {"raises", "unheard"} ELSE {"received"}

\* A variant of send_keepalive that records the instant of the keepalive
keepalive_stamp_updated(last, t) == t

\* _last_communication after send_keepalive, which returns before the
\* assignment that follows its if statement
keepalive_stamp(last, t) == last

\* One round of _send_keepalives: sleep ten seconds, then send a keepalive
\* when more than sixty seconds have passed since _last_communication
SendKeepalives ==
    /\ now < MaxTicks
    /\ now' = now + 1
    /\ IF keepalive_pc = "running" /\ now' - last_communication > KeepaliveAfter /\ ws # None
       THEN \E outcome \in SendOutcomes :
               /\ frames' = IF outcome = "received"
                            THEN Append(frames, [kind |-> "keepalive", data |-> 0, at |-> now'])
                            ELSE frames
               /\ keepalive_pc' = IF outcome = "raises" THEN "ended" ELSE keepalive_pc
               /\ last_communication' = IF outcome = "raises" THEN last_communication
                                        ELSE keepalive_stamp(last_communication, now')
       ELSE UNCHANGED <<frames, keepalive_pc, last_communication>>
    /\ UNCHANGED <<ws, log_cached, connection_pc, flushed, forward_pc, produced, drops>>
    /\ UNCHANGED <<process_vars, blurb_vars, vcs_vars, worker_vars, publisher_vars>>

\* session.ws_connect in _connection: refused (ClientConnectorError or
\* ClientResponseError) or accepted. Once accepted the flush of _log_cached
\* begins: the first cached fragment is written before any other task can
\* run, and with nothing cached the task waits in ws.receive()
Connect ==
    /\ connection_pc = "connect"
    /\ \E accepted \in BOOLEAN :
          IF ~accepted
          THEN /\ ws' = None
               /\ connection_pc' = "sleep"
               /\ flushed' = 0
               /\ UNCHANGED <<frames, last_communication, log_cached>>
          ELSE /\ ws' = "open"
               /\ IF log_cached = <<>>
                  THEN /\ connection_pc' = "receive"
                       /\ flushed' = 0
                       /\ UNCHANGED <<frames, last_communication, log_cached>>
                  ELSE /\ frames' = Append(frames, Frame("log", log_cached[1]))
                       /\ last_communication' = now
                       /\ IF Len(log_cached) = 1
                          THEN /\ log_cached' = <<>>
                               /\ flushed' = 0
                               /\ connection_pc' = "receive"
                          ELSE /\ log_cached' = log_cached
                               /\ flushed' = 1
                               /\ connection_pc' = "flush"
    /\ UNCHANGED <<now, keepalive_pc, forward_pc, produced, drops>>
    /\ UNCHANGED <<process_vars, blurb_vars, vcs_vars, worker_vars, publisher_vars>>

\* A later round of "for (fn, data) in self._log_cached: await
\* self.send_log_fragment(fn, data)", taken when the send_bytes of the round
\* before had to wait for the transport; after the last round _log_cached is
\* emptied. An exception of send_bytes ends the task _connection.
FlushLogCached ==
    /\ connection_pc = "flush"
    /\ \E outcome \in SendOutcomes :
          IF outcome = "raises"
          THEN /\ connection_pc' = "ended"
               /\ UNCHANGED <<frames, last_communication, flushed, log_cached>>
          ELSE /\ frames' = IF outcome = "received"
                            THEN Append(frames, Frame("log", log_cached[flushed + 1]))
                            ELSE frames
               /\ last_communication' = now
               /\ IF flushed + 1 = Len(log_cached)
                  THEN /\ log_cached' = <<>>
                       /\ flushed' = 0
                       /\ connection_pc' = "receive"
                  ELSE /\ log_cached' = log_cached
                       /\ flushed' = flushed + 1
                       /\ connection_pc' = connection_pc
    /\ UNCHANGED <<now, ws, keepalive_pc, forward_pc, produced, drops>>
    /\ UNCHANGED <<process_vars, blurb_vars, vcs_vars, worker_vars, publisher_vars>>

\* The server drops the connection without a close frame
ServerDrops ==
    /\ ws = "open"
    /\ drops < MaxDrops
    /\ ws' = "dead"
    /\ drops' = drops + 1
    /\ UNCHANGED <<now, last_communication, log_cached, connection_pc, flushed, keepalive_pc, forward_pc, produced, frames>>
    /\ UNCHANGED <<process_vars, blurb_vars, vcs_vars, worker_vars, publisher_vars>>

\* ws.receive() returns closed or error for a dropped socket, or the close
\* frame of the server; the loop breaks, self.ws = None, and the task sleeps
Receive ==
    /\ connection_pc = "receive"
    /\ \/ ws = "dead" /\ drops' = drops
       \/ ws = "open" /\ drops < MaxDrops /\ drops' = drops + 1
    /\ ws' = None
    /\ connection_pc' = "sleep"
    /\ UNCHANGED <<now, last_communication, log_cached, flushed, keepalive_pc, forward_pc, produced, frames>>
    /\ UNCHANGED <<process_vars, blurb_vars, vcs_vars, worker_vars, publisher_vars>>

\* await asyncio.sleep(5) in _connection, then the next ws_connect
Sleep ==
    /\ connection_pc = "sleep"
    /\ connection_pc' = "connect"
    /\ UNCHANGED <<now, last_communication, ws, log_cached, flushed, keepalive_pc, forward_pc, produced, drops, frames>>
    /\ UNCHANGED <<process_vars, blurb_vars, vcs_vars, worker_vars, publisher_vars>>

\* _forward_logs reads the next fragment of the log file and hands it to
\* send_log_fragment: cached while self.ws is None, sent otherwise. An
\* exception of send_bytes ends the task _forward_logs.
ForwardLogs ==
    /\ forward_pc = "running"
    /\ produced < MaxFragments
    /\ produced' = produced + 1
    /\ IF ws = None
       THEN /\ log_cached' = Append(log_cached, produced + 1)
            /\ last_communication' = now
            /\ UNCHANGED <<frames, forward_pc>>
       ELSE /\ log_cached' = log_cached
            /\ \E outcome \in SendOutcomes :
                  /\ frames' = IF outcome = "received"
                               THEN Append(frames, Frame("log", produced + 1))
                               ELSE frames
                  /\ forward_pc' = IF outcome = "raises" THEN "ended" ELSE forward_pc
                  /\ last_communication' = IF outcome = "raises" THEN last_communication ELSE now
    /\ UNCHANGED <<now, ws, connection_pc, flushed, keepalive_pc, drops>>
    /\ UNCHANGED <<process_vars, blurb_vars, vcs_vars, worker_vars, publisher_vars>>

NextWatchdog ==
    \/ SendKeepalives
    \/ Connect
    \/ FlushLogCached
    \/ ServerDrops
    \/ Receive
    \/ Sleep
    \/ ForwardLogs

\* WatchdogPetter.__init__, start() and track_log_directory(): the three
\* tasks are scheduled, nothing is cached and no socket is open
InitWatchdog ==
    /\ PublisherNotStarted
    /\ WorkerNotStarted
    /\ VcsStoreEmpty
    /\ BlurbIdle
    /\ ProcessIdle
    /\ now = 0
    /\ last_communication = 0
    /\ ws = None
    /\ log_cached = <<>>
    /\ connection_pc = "connect"
    /\ flushed = 0
    /\ keepalive_pc = "running"
    /\ forward_pc = "running"
    /\ produced = 0
    /\ drops = 0
    /\ frames = <<>>

SpecWatchdog == InitWatchdog /\ [][NextWatchdog]_vars


\* The keepalive frames the server has received, in order
Keepalives == SelectSeq(frames, LAMBDA f : f.kind = "keepalive")

\* The log fragments the server has received, in order
Delivered == SelectSeq(frames, LAMBDA f : f.kind = "log")

\* C35: a sent keepalive counts as the last frame sent, so that two
\* keepalives are never sent less than sixty seconds apart
C35_KeepalivesSixtySecondsApart ==
    \A i, j \in 1..Len(Keepalives) :
       i < j => Keepalives[j].at - Keepalives[i].at >= KeepaliveAfter

\* The fairness the event loop and the server give: every task that can run
\* does run, and a server asked again and again accepts in the end
ConnectAccepted == Connect /\ ws' = "open"

SpecWatchdogFair ==
    /\ InitWatchdog
    /\ [][NextWatchdog]_vars
    /\ WF_vars(Sleep)
    /\ WF_vars(Receive)
    /\ WF_vars(FlushLogCached)
    /\ SF_vars(ConnectAccepted)

\* C36: after any loss of the progress connection the watchdog keeps trying,
\* and with a server that accepts in the end the channel is connected again
C36_LostConnectionIsRestored == (ws # "open") ~> (ws = "open")

\* C37: the server receives every fragment handed to send_log_fragment once
\* and in the order of the log file, and no fragment is lost: each is
\* received or still waits in _log_cached
C37_FragmentsDeliveredOnceInOrder ==
    /\ \A i, j \in 1..Len(Delivered) : i < j => Delivered[i].data < Delivered[j].data
    /\ \A n \in 1..produced :
          \/ \E i \in 1..Len(Delivered) : Delivered[i].data = n
          \/ \E k \in (flushed + 1)..Len(log_cached) : log_cached[k] = n


\* C39: for one run at most one result is posted to active-runs/{id}/finish;
\* abort_run and the finally block of main() never both post
C39_AtMostOneResultPosted ==
    /\ Len(posts) <= 1
    /\ ~\E i, j \in 1..Len(posts) : posts[i].by = "abort_run" /\ posts[j].by = "finally"


\* ------------------------------------------------------------------------
\* check_existing when the update of a proposal fails

\* check_existing, at the proposal it is about to visit, calls publish_one
\* and publish_one raises PublishFailure: the main branch cannot be opened
ReconcileUpdateFails(url) ==
    /\ ReconcileVisit(url)
    /\ ReconcilePublishes(url, Head(driver.todo)[2])
    /\ branch_fault[proposals[url].package] = "branch-unavailable"

\* C40: when the update of a proposal fails with PublishFailure, also when it
\* is the first update the pass attempts, check_existing stores one
\* Publication row with the failure's code, mode propose and the proposal's
\* URL, goes on with the next proposal, and seeds the rate limiter at the end
\* of the pass (in a daemon whose limiter is a MaintainerRateLimiter).
C40_FailedUpdateIsStoredAndPassGoesOn ==
    [][\A url \in 1..Len(proposals) :
          (ReconcileUpdateFails(url) /\ rate_limiter_class = "MaintainerRateLimiter")
          => /\ Len(publish') = Len(publish) + 1
             /\ publish'[Len(publish')].code = "branch-unavailable"
             /\ publish'[Len(publish')].mode = MODE_PROPOSE
             /\ publish'[Len(publish')].proposal_url = Some(url)
             /\ alive'
             /\ Len(driver.todo) = 1 => set_called']_vars

====
